---------------------------- MODULE Spec2Model ----------------------------
(***************************************************************************)
(* Field-to-profile matching engine of the autofill extension:             *)
(*   confidence.js  (normalizeText .. calculateConfidence)                 *)
(*   rules.js       (FIELD_PATTERNS, NEGATIVE_KEYWORDS, accessors)         *)
(*   mapper.js      (getProfileFieldValue, validateFieldType, matchField,  *)
(*                   mapProfileToForm)                                     *)
(*                                                                         *)
(* Strings are sequences of one-character strings, so that toLowerCase,    *)
(* trim, the two regular-expression replacements, includes, startsWith and *)
(* the edit distance are computed character by character.  Scores are      *)
(* IEEE 754 doubles, computed with the roundings of the code's operations. *)
(***************************************************************************)
EXTENDS Integers, Sequences, FiniteSets, TLC

\* Only({ body : x \in {value} }) is const x = value; body: the value is
\* computed once, before the body
Only(S) == CHOOSE result \in S : TRUE

Max(a, b) == IF a >= b THEN a ELSE b

(***************************************************************************)
(* IEEE 754 binary64 arithmetic of JavaScript numbers, for the values the  *)
(* engine computes: non-negative, normal, far from overflow.  A number is  *)
(* <<e, m>>: m is its 53-bit significand as four digits of base 2^14,      *)
(* least significant first, and the value is m * 2^e; zero is DZero.       *)
(* Every operation computes the exact result as a natural number scaled by *)
(* a power of two and rounds it to 53 bits, ties to even.                  *)
(***************************************************************************)
LimbBits == 14

LimbBase == 16384

\* c[i] is the carry out of digit i when the digits xs, each below 2^31 less
\* a carry, are brought below the base; one digit is added for the last carry
BigCarry(xs) ==
  Only({
      LET c[i \in 0..Len(ds)] == IF i = 0 THEN 0 ELSE (ds[i] + c[i - 1]) \div LimbBase
      IN  [i \in 1..(Len(ds) + 1) |->
             IF i =< Len(ds) THEN ((ds[i] + c[i - 1]) % LimbBase) ELSE c[Len(ds)]]
    : ds \in {xs} })

\* digit i of xs, 0 beyond its length
BigDigit(xs, i) == IF i >= 1 /\ i =< Len(xs) THEN xs[i] ELSE 0

BigAdd(xs, ys) ==
  Only({
      BigCarry([i \in 1..Max(Len(as), Len(bs)) |-> BigDigit(as, i) + BigDigit(bs, i)])
    : as \in {xs}, bs \in {ys} })

\* xs - ys for xs >= ys
BigSub(xs, ys) ==
  Only({
      LET b[i \in 0..Len(as)] ==
            IF i = 0 THEN 0
            ELSE IF as[i] - BigDigit(bs, i) - b[i - 1] < 0 THEN 1 ELSE 0
      IN  [i \in 1..Len(as) |-> (as[i] - BigDigit(bs, i) - b[i - 1]) % LimbBase]
    : as \in {xs}, bs \in {ys} })

\* xs * ys for numbers of four digits each: digit k of the product before
\* the carries is the sum of the products xs[i] * ys[j] with i + j = k + 1
BigMul(xs, ys) ==
  Only({
      BigCarry([k \in 1..7 |->
        BigDigit(as, k) * bs[1] + BigDigit(as, k - 1) * bs[2]
          + BigDigit(as, k - 2) * bs[3] + BigDigit(as, k - 3) * bs[4]])
    : as \in {xs}, bs \in {ys} })

\* xs without its leading zero digits
BigTrim(xs) ==
  Only({
      SubSeq(ds, 1, CHOOSE hi \in 0..Len(ds) :
      /\ hi = 0 \/ ds[hi] # 0
      /\ \A i \in (hi + 1)..Len(ds) : ds[i] = 0)
    : ds \in {xs} })

\* the number of bits of a trimmed xs > 0
BigBitLen(xs) ==
  Only({
      LimbBits * (Len(xs) - 1)
        + CHOOSE k \in 1..LimbBits : 2^(k - 1) =< top /\ top < 2^k
    : top \in {xs[Len(xs)]} })

\* xs * 2^s
BigShiftLeft(xs, s) ==
  Only({
      [i \in 1..(s \div LimbBits) |-> 0]
        \o [i \in 1..(Len(ds) + 1) |->
              ((BigDigit(ds, i) * p) % LimbBase) + ((BigDigit(ds, i - 1) * p) \div LimbBase)]
    : ds \in {xs}, p \in {2^(s % LimbBits)} })

\* xs \div 2^s
BigShiftRight(xs, s) ==
  Only({
      [i \in 1..Max(0, Len(ds) - q) |->
        (BigDigit(ds, i + q) \div p) + ((BigDigit(ds, i + q + 1) % p) * (LimbBase \div p))]
    : ds \in {xs}, q \in {s \div LimbBits}, p \in {2^(s % LimbBits)} })

\* bit number k of xs, bit 0 the least significant
BigBit(xs, k) == (BigDigit(xs, (k \div LimbBits) + 1) \div 2^(k % LimbBits)) % 2

\* some bit of xs below bit number k is set
BigAnyBelow(xs, k) ==
  \/ \E i \in 1..(k \div LimbBits) : BigDigit(xs, i) # 0
  \/ (BigDigit(xs, (k \div LimbBits) + 1) % 2^(k % LimbBits)) # 0

\* xs \div d and xs % d for 0 < d < 2^14
BigDivSmall(xs, d) ==
  Only({
      LET r[i \in 1..(Len(ds) + 1)] ==
            IF i = Len(ds) + 1 THEN 0 ELSE ((r[i + 1] * LimbBase) + ds[i]) % k
      IN  [quotient  |-> [i \in 1..Len(ds) |-> ((r[i + 1] * LimbBase) + ds[i]) \div k],
           remainder |-> r[1]]
    : ds \in {xs}, k \in {d} })

DZero == <<0, <<0, 0, 0, 0>>>>

\* 1 is 2^52 * 2^-52
DOne == <<-52, <<0, 0, 0, 1024>>>>

\* xs padded to four digits
BigFour(xs) == [i \in 1..4 |-> BigDigit(xs, i)]

\* the double nearest to xs * 2^e, or to a little more when sticky: ties go
\* to the even significand
DRound(xs, e, sticky) ==
  Only({
      IF n = <<>> THEN DZero
      ELSE Only({
          IF s =< 0 THEN <<e + s, BigFour(BigShiftLeft(n, -s))>>
          ELSE Only({
              IF BigBit(n, s - 1) = 1 /\ (BigAnyBelow(n, s - 1) \/ sticky \/ (q[1] % 2) = 1)
              THEN Only({
                  IF up[4] = 2048 THEN <<e + s + 1, <<0, 0, 0, 1024>>>>
                  ELSE <<e + s, up>>
                : up \in {BigFour(BigAdd(q, <<1>>))} })
              ELSE <<e + s, q>>
            : q \in {BigFour(BigShiftRight(n, s))} })
        : s \in {BigBitLen(n) - 53} })
    : n \in {BigTrim(xs)} })

\* the double of the integer n, 0 =< n < 2^28
DInt(n) == Only({
    DRound(<<(k % LimbBase), (k \div LimbBase)>>, 0, FALSE)
  : k \in {n} })

\* x + y
DAdd(x, y) ==
  Only({
      IF a = DZero THEN b
      ELSE IF b = DZero THEN a
      ELSE Only({
          DRound(BigAdd(BigShiftLeft(a[2], a[1] - e), BigShiftLeft(b[2], b[1] - e)),
            e, FALSE)
        : e \in {IF a[1] < b[1] THEN a[1] ELSE b[1]} })
    : a \in {x}, b \in {y} })

\* x - y for x >= y
DSub(x, y) ==
  Only({
      IF b = DZero THEN a
      ELSE Only({
          DRound(BigSub(BigShiftLeft(a[2], a[1] - e), BigShiftLeft(b[2], b[1] - e)),
            e, FALSE)
        : e \in {IF a[1] < b[1] THEN a[1] ELSE b[1]} })
    : a \in {x}, b \in {y} })

\* x * y
DMul(x, y) ==
  Only({
      IF a = DZero \/ b = DZero THEN DZero
      ELSE IF b = DOne THEN a                     \* x * 1 is x
      ELSE DRound(BigMul(a[2], b[2]), a[1] + b[1], FALSE)
    : a \in {x}, b \in {y} })

\* x / d for an integer 0 < d < 2^14
DDivInt(x, d) ==
  Only({
      IF a = DZero THEN DZero
      ELSE Only({
          DRound(division.quotient, a[1] - 2 * LimbBits, division.remainder # 0)
        : division \in {BigDivSmall(BigShiftLeft(a[2], 2 * LimbBits), k)} })
    : a \in {x}, k \in {d} })

\* the number literals with at most two decimals, computed once
Literals == [n \in 0..100, d \in {1, 10, 100} |-> DDivInt(DInt(n), d)] @@ <<>>

\* the number literal n/d, as 0.85 is 85/100
Dbl(n, d) ==
  IF <<n, d>> \in DOMAIN Literals THEN Literals[n, d] ELSE DDivInt(DInt(n), d)

\* x < y
DLess(x, y) ==
  Only({
      IF b = DZero THEN FALSE
      ELSE IF a = DZero THEN TRUE
      ELSE IF a[1] # b[1] THEN a[1] < b[1]
      ELSE \E i \in 1..4 : a[2][i] < b[2][i] /\ \A j \in (i + 1)..4 : a[2][j] = b[2][j]
    : a \in {x}, b \in {y} })

DLeq(x, y) == ~DLess(y, x)

\* Math.min(x, y)
DMin(x, y) == Only({ IF DLess(b, a) THEN b ELSE a : a \in {x}, b \in {y} })

\* Math.round(x) for 0 =< x < 2^14: the nearest integer, halves upwards
MathRound(x) ==
  Only({
      IF a = DZero THEN 0
      ELSE BigDigit(BigShiftRight(a[2], -a[1]), 1) + BigBit(a[2], -a[1] - 1)
    : a \in {x} })

(***************************************************************************)
(* for (k = lo; k <= hi; k++) acc = step(k, acc): the value of acc after   *)
(* the loop.  The range is run as its lower half followed by its upper     *)
(* half, which keeps the evaluation depth logarithmic in the number of     *)
(* iterations.                                                             *)
(***************************************************************************)
RECURSIVE forRange(_, _, _, _)
forRange(step(_, _), lo, hi, acc) ==
  Only({
      IF l > h THEN a
      ELSE IF l = h THEN step(l, a)
      ELSE forRange(step, (l + h) \div 2 + 1, h,
                    forRange(step, l, (l + h) \div 2, a))
    : l \in {lo}, h \in {hi}, a \in {acc} })

(***************************************************************************)
(* Characters                                                              *)
(***************************************************************************)
UpperToLower ==
  [c \in {"A","B","C","D","E","F","G","H","I","J","K","L","M",
          "N","O","P","Q","R","S","T","U","V","W","X","Y","Z"} |->
     CASE c = "A" -> "a" [] c = "B" -> "b" [] c = "C" -> "c" [] c = "D" -> "d"
       [] c = "E" -> "e" [] c = "F" -> "f" [] c = "G" -> "g" [] c = "H" -> "h"
       [] c = "I" -> "i" [] c = "J" -> "j" [] c = "K" -> "k" [] c = "L" -> "l"
       [] c = "M" -> "m" [] c = "N" -> "n" [] c = "O" -> "o" [] c = "P" -> "p"
       [] c = "Q" -> "q" [] c = "R" -> "r" [] c = "S" -> "s" [] c = "T" -> "t"
       [] c = "U" -> "u" [] c = "V" -> "v" [] c = "W" -> "w" [] c = "X" -> "x"
       [] c = "Y" -> "y" [] c = "Z" -> "z"]

\* String.prototype.toLowerCase on one ASCII character
LowerChar(c) == IF c \in DOMAIN UpperToLower THEN UpperToLower[c] ELSE c

\* the regular-expression class \s, and the characters trim() removes
IsSpace(c) == c \in {" ", "\t", "\n"}

\* the regular-expression class [a-z0-9]
IsAlnum(c) ==
  c \in {"a","b","c","d","e","f","g","h","i","j","k","l","m",
         "n","o","p","q","r","s","t","u","v","w","x","y","z",
         "0","1","2","3","4","5","6","7","8","9"}

IsDigit(c) == c \in {"0","1","2","3","4","5","6","7","8","9"}

(***************************************************************************)
(* String primitives of the JavaScript runtime                             *)
(***************************************************************************)
toLowerCase(s) == Only({
    [i \in 1..Len(str) |-> LowerChar(str[i])]
  : str \in {s} })

\* String.prototype.trim: the text between the first and the last character
\* that is not white space
trim(s) ==
  Only({
      IF \A i \in 1..Len(str) : IsSpace(str[i]) THEN <<>>
      ELSE SubSeq(str,
                  CHOOSE i \in 1..Len(str) :
                     ~IsSpace(str[i]) /\ \A j \in 1..(i - 1) : IsSpace(str[j]),
                  CHOOSE i \in 1..Len(str) :
                     ~IsSpace(str[i]) /\ \A j \in (i + 1)..Len(str) : IsSpace(str[j]))
    : str \in {s} })

\* s.includes(sub)
includes(s, sub) ==
  Only({
      \E i \in 0..(Len(str) - Len(part)) : SubSeq(str, i + 1, i + Len(part)) = part
    : str \in {s}, part \in {sub} })

\* the prefix searched anywhere in the string
startsWith_anywhere(s, pre) == includes(s, pre)

\* s.startsWith(pre)
startsWith(s, pre) ==
  Only({
      Len(part) =< Len(str) /\ SubSeq(str, 1, Len(part)) = part
    : str \in {s}, part \in {pre} })

\* parts.join(sep) for a sequence of strings
join(parts, sep) ==
  Only({
      forRange(LAMBDA k, acc : IF k = 1 THEN list[1] ELSE acc \o between \o list[k],
        1, Len(list), <<>>)
    : list \in {parts}, between \in {sep} })

(***************************************************************************)
(* confidence.js                                                           *)
(***************************************************************************)
\* .replace(/[^a-z0-9\s]/g, '')
stripSpecial(s) == SelectSeq(s, LAMBDA c : IsAlnum(c) \/ IsSpace(c))

\* .replace(/\s+/g, ' '): a white-space character that follows another one is
\* dropped, the first of each run becomes one space
collapseSpaces(s) ==
  Only({
      SelectSeq([i \in 1..Len(str) |->
         IF ~IsSpace(str[i]) THEN str[i]
         ELSE IF i > 1 /\ IsSpace(str[i - 1]) THEN "" ELSE " "],
      LAMBDA c : c # "")
    : str \in {s} })

normalizeText(text) ==
  IF text = <<>> THEN <<>>
  ELSE collapseSpaces(stripSpecial(trim(toLowerCase(text))))

Min3(a, b, c) == IF a =< b THEN (IF a =< c THEN a ELSE c) ELSE (IF b =< c THEN b ELSE c)

\* the cell computed without the substitution
levCell_noSubstitution(prev, row, ch, str2, j) ==
  IF ch = str2[j] THEN prev[j]
  ELSE Min3(prev[j] + 2, row[j] + 1, prev[j + 1] + 1)

\* matrix[i][j] from the row above (prev) and the cells of row i filled so
\* far (row); row[j + 1] holds matrix[i][j]
levCell(prev, row, ch, str2, j) ==
  IF ch = str2[j] THEN prev[j]
  ELSE Min3(prev[j] + 1, row[j] + 1, prev[j + 1] + 1)

\* row i of the matrix, filled left to right
levRow(prev, i, ch, str2) ==
  forRange(LAMBDA j, row : Append(row, levCell(prev, row, ch, str2, j)),
           1, Len(str2), <<i>>)

calculateLevenshteinDistance(str1, str2) ==
  Only({
      forRange(LAMBDA i, prev : levRow(prev, i, s1[i], s2),
        1, Len(s1), [j \in 1..(Len(s2) + 1) |-> j - 1])[Len(s2) + 1]
    : s1 \in {str1}, s2 \in {str2} })

\* the threshold with a similarity of exactly 0.5 kept
aboveThreshold_orEqual(similarity) == DLeq(Dbl(5, 10), similarity)

\* similarity > 0.5
aboveThreshold(similarity) == DLess(Dbl(5, 10), similarity)

scoreFuzzyMatch(str1, str2) ==
  IF str1 = <<>> \/ str2 = <<>> THEN DZero
  ELSE Only({
      IF normalized1 = <<>> \/ normalized2 = <<>> THEN DZero
      ELSE IF normalized1 = normalized2 THEN DOne
      ELSE IF includes(normalized1, normalized2) THEN Dbl(85, 100)
      ELSE IF includes(normalized2, normalized1) THEN Dbl(85, 100)
      ELSE Only({
          IF maxLen = 0 THEN DZero
          ELSE Only({
              IF aboveThreshold(similarity) THEN similarity ELSE DZero
            : similarity \in {DSub(DOne, DDivInt(DInt(distance), maxLen))} })
        : distance \in {calculateLevenshteinDistance(normalized1, normalized2)},
          maxLen \in {Max(Len(normalized1), Len(normalized2))} })
    : normalized1 \in {normalizeText(str1)},
      normalized2 \in {normalizeText(str2)} })

\* weights of scoreMatch, in hundredths: label 0.50, placeholder 0.30,
\* name 0.15, ariaLabel 0.05
weights ==
  [label |-> Dbl(50, 100), placeholder |-> Dbl(30, 100),
   name |-> Dbl(15, 100), ariaLabel |-> Dbl(5, 100)]

\* the loop keeping the score of the last phrase instead of the best one
bestPatternScore_last(text, patterns) ==
  forRange(LAMBDA k, bestScore : scoreFuzzyMatch(text, patterns[k]),
           1, Len(patterns), DZero)

\* the loop of scoreMatch over pattern.patterns: strictly greater replaces
bestPatternScore(text, patterns) ==
  forRange(LAMBDA k, bestScore :
             Only({
                 IF DLess(bestScore, score) THEN score ELSE bestScore
               : score \in {scoreFuzzyMatch(text, patterns[k])} }),
           1, Len(patterns), DZero)

scoreMatch(formField, pattern, matchType) ==
  Only({
      IF text = <<>> THEN DZero
      ELSE DMul(bestPatternScore(text, pattern.patterns), weight)
    : weight \in {IF matchType \in DOMAIN weights THEN weights[matchType] ELSE DZero},
      text \in {formField[matchType]} })

\* the text the negative keywords are searched in
allText(formField) ==
  toLowerCase(join(<<formField.label, formField.placeholder, formField.name>>, <<" ">>))

\* the veto with the keyword compared to the whole text instead of searched in it
hasNegativeKeyword_wholeText(formField, negativeKeywords) ==
  Only({
      \E k \in 1..Len(negativeKeywords) : whole = toLowerCase(negativeKeywords[k])
    : whole \in {allText(formField)} })

\* the loop over negativeKeywords: allText.includes(keyword.toLowerCase())
hasNegativeKeyword(formField, negativeKeywords) ==
  Only({
      \E k \in 1..Len(negativeKeywords) : includes(whole, toLowerCase(negativeKeywords[k]))
    : whole \in {allText(formField)} })

\* calculateConfidence returns {score, matchedOn, details}; details is read by
\* no caller and is left out.  matchedOn "null" is JavaScript null.
calculateConfidence(formField, pattern, negativeKeywords) ==
  IF formField.t = "null"
  THEN [score |-> DZero, matchedOn |-> "null"]          \* TypeError, caught
  ELSE IF hasNegativeKeyword(formField, negativeKeywords)
  THEN [score |-> DZero, matchedOn |-> "null"]
  ELSE Only({
      Only({
        [ score     |-> DMin(DAdd(DAdd(DAdd(labelScore, placeholderScore), nameScore),
                                ariaScore), DOne),
        matchedOn |-> IF DLess(Dbl(4, 10), labelScore) THEN "label"
                      ELSE IF DLess(Dbl(2, 10), placeholderScore) THEN "placeholder"
                      ELSE IF DLess(Dbl(1, 10), nameScore) THEN "name"
                      ELSE IF DLess(DZero, ariaScore) THEN "ariaLabel"
                      ELSE "null" ]
      : nameScore \in {scoreMatch(formField, pattern, "name")},
        ariaScore \in {scoreMatch(formField, pattern, "ariaLabel")} })
    : labelScore \in {scoreMatch(formField, pattern, "label")},
      placeholderScore \in {scoreMatch(formField, pattern, "placeholder")} })

(***************************************************************************)
(* rules.js                                                                *)
(***************************************************************************)
\* A profile path 'profile.personal.firstName' is the sequence of its keys,
\* which is what profilePath.split('.') yields.
FIELD_PATTERNS ==
     <<"profile", "personal", "firstName">> :>
       [ t          |-> "obj",
         patterns   |-> << <<"f","i","r","s","t"," ","n","a","m","e">>,
                         <<"f","i","r","s","t">>,
                         <<"f","n","a","m","e">>,
                         <<"g","i","v","e","n"," ","n","a","m","e">>,
                         <<"f","o","r","e","n","a","m","e">> >>,
         \* 'first name', 'first', 'fname', 'given name', 'forename'
         fieldTypes |-> << "text" >>,
         weight     |-> DOne ]
  @@ <<"profile", "personal", "lastName">> :>
       [ t          |-> "obj",
         patterns   |-> << <<"l","a","s","t"," ","n","a","m","e">>,
                         <<"l","a","s","t">>,
                         <<"l","n","a","m","e">>,
                         <<"s","u","r","n","a","m","e">>,
                         <<"f","a","m","i","l","y"," ","n","a","m","e">> >>,
         \* 'last name', 'last', 'lname', 'surname', 'family name'
         fieldTypes |-> << "text" >>,
         weight     |-> DOne ]
  @@ <<"profile", "personal", "email">> :>
       [ t          |-> "obj",
         patterns   |-> << <<"e","m","a","i","l">>,
                         <<"e","m","a","i","l"," ","a","d","d","r","e","s","s">>,
                         <<"e","-","m","a","i","l">>,
                         <<"m","a","i","l">> >>,
         \* 'email', 'email address', 'e-mail', 'mail'
         fieldTypes |-> << "email", "text" >>,
         weight     |-> DOne ]
  @@ <<"profile", "personal", "phone">> :>
       [ t          |-> "obj",
         patterns   |-> << <<"p","h","o","n","e">>,
                         <<"p","h","o","n","e"," ","n","u","m","b","e","r">>,
                         <<"m","o","b","i","l","e">>,
                         <<"t","e","l","e","p","h","o","n","e">>,
                         <<"c","e","l","l">>,
                         <<"c","o","n","t","a","c","t"," ","n","u","m","b","e","r">> >>,
         \* 'phone', 'phone number', 'mobile', 'telephone', 'cell', 'contact number'
         fieldTypes |-> << "tel", "text" >>,
         weight     |-> DOne ]
  @@ <<"profile", "personal", "address">> :>
       [ t          |-> "obj",
         patterns   |-> << <<"a","d","d","r","e","s","s">>,
                         <<"s","t","r","e","e","t">>,
                         <<"s","t","r","e","e","t"," ","a","d","d","r","e","s","s">>,
                         <<"a","d","d","r","e","s","s"," ","l","i","n","e">>,
                         <<"l","o","c","a","t","i","o","n">> >>,
         \* 'address', 'street', 'street address', 'address line', 'location'
         fieldTypes |-> << "text", "textarea" >>,
         weight     |-> DOne ]
  @@ <<"profile", "personal", "city">> :>
       [ t          |-> "obj",
         patterns   |-> << <<"c","i","t","y">>,
                         <<"t","o","w","n">> >>,
         \* 'city', 'town'
         fieldTypes |-> << "text" >>,
         weight     |-> DOne ]
  @@ <<"profile", "personal", "state">> :>
       [ t          |-> "obj",
         patterns   |-> << <<"s","t","a","t","e">>,
                         <<"p","r","o","v","i","n","c","e">>,
                         <<"r","e","g","i","o","n">> >>,
         \* 'state', 'province', 'region'
         fieldTypes |-> << "text", "select" >>,
         weight     |-> DOne ]
  @@ <<"profile", "personal", "zipCode">> :>
       [ t          |-> "obj",
         patterns   |-> << <<"z","i","p">>,
                         <<"z","i","p"," ","c","o","d","e">>,
                         <<"p","o","s","t","a","l"," ","c","o","d","e">>,
                         <<"p","o","s","t","c","o","d","e">>,
                         <<"p","o","s","t","a","l">> >>,
         \* 'zip', 'zip code', 'postal code', 'postcode', 'postal'
         fieldTypes |-> << "text", "number" >>,
         weight     |-> DOne ]
  @@ <<"profile", "personal", "country">> :>
       [ t          |-> "obj",
         patterns   |-> << <<"c","o","u","n","t","r","y">>,
                         <<"n","a","t","i","o","n">> >>,
         \* 'country', 'nation'
         fieldTypes |-> << "text", "select" >>,
         weight     |-> DOne ]
  @@ <<"profile", "education", "degree">> :>
       [ t          |-> "obj",
         patterns   |-> << <<"d","e","g","r","e","e">>,
                         <<"q","u","a","l","i","f","i","c","a","t","i","o","n">>,
                         <<"e","d","u","c","a","t","i","o","n"," ","l","e","v","e","l">>,
                         <<"h","i","g","h","e","s","t"," ","d","e","g","r","e","e">> >>,
         \* 'degree', 'qualification', 'education level', 'highest degree'
         fieldTypes |-> << "text", "select" >>,
         weight     |-> DOne ]
  @@ <<"profile", "education", "major">> :>
       [ t          |-> "obj",
         patterns   |-> << <<"m","a","j","o","r">>,
                         <<"f","i","e","l","d"," ","o","f"," ","s","t","u","d","y">>,
                         <<"s","p","e","c","i","a","l","i","z","a","t","i","o","n">>,
                         <<"s","u","b","j","e","c","t">>,
                         <<"a","r","e","a"," ","o","f"," ","s","t","u","d","y">> >>,
         \* 'major', 'field of study', 'specialization', 'subject', 'area of study'
         fieldTypes |-> << "text" >>,
         weight     |-> DOne ]
  @@ <<"profile", "education", "university">> :>
       [ t          |-> "obj",
         patterns   |-> << <<"u","n","i","v","e","r","s","i","t","y">>,
                         <<"c","o","l","l","e","g","e">>,
                         <<"s","c","h","o","o","l">>,
                         <<"i","n","s","t","i","t","u","t","i","o","n">>,
                         <<"a","l","m","a"," ","m","a","t","e","r">> >>,
         \* 'university', 'college', 'school', 'institution', 'alma mater'
         fieldTypes |-> << "text" >>,
         weight     |-> DOne ]
  @@ <<"profile", "education", "graduationYear">> :>
       [ t          |-> "obj",
         patterns   |-> << <<"g","r","a","d","u","a","t","i","o","n"," ","y","e","a","r">>,
                         <<"g","r","a","d"," ","y","e","a","r">>,
                         <<"y","e","a","r"," ","o","f"," ","g","r","a","d","u","a","t","i","o","n">>,
                         <<"g","r","a","d","u","a","t","i","o","n"," ","d","a","t","e">> >>,
         \* 'graduation year', 'grad year', 'year of graduation', 'graduation date'
         fieldTypes |-> << "text", "number", "date" >>,
         weight     |-> DOne ]
  @@ <<"profile", "education", "gpa">> :>
       [ t          |-> "obj",
         patterns   |-> << <<"g","p","a">>,
                         <<"g","r","a","d","e"," ","p","o","i","n","t"," ","a","v","e","r","a","g","e">>,
                         <<"g","r","a","d","e","s">>,
                         <<"c","g","p","a">> >>,
         \* 'gpa', 'grade point average', 'grades', 'cgpa'
         fieldTypes |-> << "text", "number" >>,
         weight     |-> DOne ]
  @@ <<"profile", "experience", "currentRole">> :>
       [ t          |-> "obj",
         patterns   |-> << <<"c","u","r","r","e","n","t"," ","r","o","l","e">>,
                         <<"j","o","b"," ","t","i","t","l","e">>,
                         <<"p","o","s","i","t","i","o","n">>,
                         <<"r","o","l","e">>,
                         <<"c","u","r","r","e","n","t"," ","p","o","s","i","t","i","o","n">>,
                         <<"t","i","t","l","e">> >>,
         \* 'current role', 'job title', 'position', 'role', 'current position', 'title'
         fieldTypes |-> << "text" >>,
         weight     |-> DOne ]
  @@ <<"profile", "experience", "currentCompany">> :>
       [ t          |-> "obj",
         patterns   |-> << <<"c","o","m","p","a","n","y">>,
                         <<"e","m","p","l","o","y","e","r">>,
                         <<"o","r","g","a","n","i","z","a","t","i","o","n">>,
                         <<"c","u","r","r","e","n","t"," ","c","o","m","p","a","n","y">>,
                         <<"c","u","r","r","e","n","t"," ","e","m","p","l","o","y","e","r">> >>,
         \* 'company', 'employer', 'organization', 'current company', 'current employer'
         fieldTypes |-> << "text" >>,
         weight     |-> DOne ]
  @@ <<"profile", "experience", "yearsOfExperience">> :>
       [ t          |-> "obj",
         patterns   |-> << <<"y","e","a","r","s"," ","o","f"," ","e","x","p","e","r","i","e","n","c","e">>,
                         <<"e","x","p","e","r","i","e","n","c","e">>,
                         <<"y","e","a","r","s">>,
                         <<"w","o","r","k"," ","e","x","p","e","r","i","e","n","c","e">>,
                         <<"t","o","t","a","l"," ","e","x","p","e","r","i","e","n","c","e">> >>,
         \* 'years of experience', 'experience', 'years', 'work experience', 'total experience'
         fieldTypes |-> << "text", "number" >>,
         weight     |-> DOne ]
  @@ <<"profile", "experience", "skills">> :>
       [ t          |-> "obj",
         patterns   |-> << <<"s","k","i","l","l","s">>,
                         <<"t","e","c","h","n","i","c","a","l"," ","s","k","i","l","l","s">>,
                         <<"e","x","p","e","r","t","i","s","e">>,
                         <<"c","o","m","p","e","t","e","n","c","i","e","s">>,
                         <<"a","b","i","l","i","t","i","e","s">> >>,
         \* 'skills', 'technical skills', 'expertise', 'competencies', 'abilities'
         fieldTypes |-> << "text", "textarea" >>,
         weight     |-> DOne ]
  @@ <<"profile", "links", "linkedin">> :>
       [ t          |-> "obj",
         patterns   |-> << <<"l","i","n","k","e","d","i","n">>,
                         <<"l","i","n","k","e","d","i","n"," ","u","r","l">>,
                         <<"l","i","n","k","e","d","i","n"," ","p","r","o","f","i","l","e">>,
                         <<"l","i","n","k","e","d","i","n"," ","l","i","n","k">> >>,
         \* 'linkedin', 'linkedin url', 'linkedin profile', 'linkedin link'
         fieldTypes |-> << "url", "text" >>,
         weight     |-> DOne ]
  @@ <<"profile", "links", "github">> :>
       [ t          |-> "obj",
         patterns   |-> << <<"g","i","t","h","u","b">>,
                         <<"g","i","t","h","u","b"," ","u","r","l">>,
                         <<"g","i","t","h","u","b"," ","p","r","o","f","i","l","e">>,
                         <<"g","i","t","h","u","b"," ","l","i","n","k">> >>,
         \* 'github', 'github url', 'github profile', 'github link'
         fieldTypes |-> << "url", "text" >>,
         weight     |-> DOne ]
  @@ <<"profile", "links", "portfolio">> :>
       [ t          |-> "obj",
         patterns   |-> << <<"p","o","r","t","f","o","l","i","o">>,
                         <<"p","o","r","t","f","o","l","i","o"," ","u","r","l">>,
                         <<"p","o","r","t","f","o","l","i","o"," ","l","i","n","k">>,
                         <<"w","o","r","k"," ","s","a","m","p","l","e","s">> >>,
         \* 'portfolio', 'portfolio url', 'portfolio link', 'work samples'
         fieldTypes |-> << "url", "text" >>,
         weight     |-> DOne ]
  @@ <<"profile", "links", "website">> :>
       [ t          |-> "obj",
         patterns   |-> << <<"w","e","b","s","i","t","e">>,
                         <<"p","e","r","s","o","n","a","l"," ","w","e","b","s","i","t","e">>,
                         <<"u","r","l">>,
                         <<"w","e","b"," ","p","a","g","e">>,
                         <<"h","o","m","e","p","a","g","e">> >>,
         \* 'website', 'personal website', 'url', 'web page', 'homepage'
         fieldTypes |-> << "url", "text" >>,
         weight     |-> DOne ]
  @@ <<"profile", "documents", "resume">> :>
       [ t          |-> "obj",
         patterns   |-> << <<"r","e","s","u","m","e">>,
                         <<"c","v">>,
                         <<"c","u","r","r","i","c","u","l","u","m"," ","v","i","t","a","e">>,
                         <<"u","p","l","o","a","d"," ","r","e","s","u","m","e">>,
                         <<"a","t","t","a","c","h"," ","r","e","s","u","m","e">> >>,
         \* 'resume', 'cv', 'curriculum vitae', 'upload resume', 'attach resume'
         fieldTypes |-> << "file" >>,
         weight     |-> DOne ]

NEGATIVE_KEYWORDS ==
     <<"profile", "personal", "firstName">> :> << <<"l","a","s","t">>, <<"s","u","r","n","a","m","e">>, <<"f","a","m","i","l","y">> >>   \* last, surname, family
  @@ <<"profile", "personal", "lastName">> :> << <<"f","i","r","s","t">>, <<"g","i","v","e","n">>, <<"f","o","r","e","n","a","m","e">> >>   \* first, given, forename
  @@ <<"profile", "personal", "email">> :> << <<"p","h","o","n","e">>, <<"m","o","b","i","l","e">>, <<"a","d","d","r","e","s","s">> >>   \* phone, mobile, address
  @@ <<"profile", "personal", "phone">> :> << <<"e","m","a","i","l">>, <<"m","a","i","l">> >>   \* email, mail
  @@ <<"profile", "personal", "address">> :> << <<"e","m","a","i","l">>, <<"p","h","o","n","e">> >>   \* email, phone
  @@ <<"profile", "education", "degree">> :> << <<"m","a","j","o","r">>, <<"u","n","i","v","e","r","s","i","t","y">>, <<"y","e","a","r">> >>   \* major, university, year
  @@ <<"profile", "education", "major">> :> << <<"d","e","g","r","e","e">>, <<"u","n","i","v","e","r","s","i","t","y">>, <<"y","e","a","r">> >>   \* degree, university, year
  @@ <<"profile", "education", "university">> :> << <<"d","e","g","r","e","e">>, <<"m","a","j","o","r">>, <<"y","e","a","r">> >>   \* degree, major, year
  @@ <<"profile", "experience", "currentRole">> :> << <<"c","o","m","p","a","n","y">>, <<"e","m","p","l","o","y","e","r">> >>   \* company, employer
  @@ <<"profile", "experience", "currentCompany">> :> << <<"r","o","l","e">>, <<"t","i","t","l","e">>, <<"p","o","s","i","t","i","o","n">> >>   \* role, title, position
  @@ <<"profile", "links", "linkedin">> :> << <<"g","i","t","h","u","b">>, <<"p","o","r","t","f","o","l","i","o">> >>   \* github, portfolio
  @@ <<"profile", "links", "github">> :> << <<"l","i","n","k","e","d","i","n">>, <<"p","o","r","t","f","o","l","i","o">> >>   \* linkedin, portfolio
  @@ <<"profile", "links", "portfolio">> :> << <<"l","i","n","k","e","d","i","n">>, <<"g","i","t","h","u","b">> >>   \* linkedin, github

\* Object.keys(FIELD_PATTERNS): the keys in declaration order
getAllProfilePaths ==
  << <<"profile", "personal", "firstName">>,
     <<"profile", "personal", "lastName">>,
     <<"profile", "personal", "email">>,
     <<"profile", "personal", "phone">>,
     <<"profile", "personal", "address">>,
     <<"profile", "personal", "city">>,
     <<"profile", "personal", "state">>,
     <<"profile", "personal", "zipCode">>,
     <<"profile", "personal", "country">>,
     <<"profile", "education", "degree">>,
     <<"profile", "education", "major">>,
     <<"profile", "education", "university">>,
     <<"profile", "education", "graduationYear">>,
     <<"profile", "education", "gpa">>,
     <<"profile", "experience", "currentRole">>,
     <<"profile", "experience", "currentCompany">>,
     <<"profile", "experience", "yearsOfExperience">>,
     <<"profile", "experience", "skills">>,
     <<"profile", "links", "linkedin">>,
     <<"profile", "links", "github">>,
     <<"profile", "links", "portfolio">>,
     <<"profile", "links", "website">>,
     <<"profile", "documents", "resume">> >>

getPatternForPath(profilePath) ==
  IF profilePath \in DOMAIN FIELD_PATTERNS THEN FIELD_PATTERNS[profilePath] ELSE [t |-> "null"]

getNegativeKeywords(profilePath) ==
  IF profilePath \in DOMAIN NEGATIVE_KEYWORDS THEN NEGATIVE_KEYWORDS[profilePath] ELSE <<>>

(***************************************************************************)
(* Inputs of the model                                                     *)
(***************************************************************************)
\* a field descriptor as the scanner produces it; an absent attribute is the
\* empty string
Field(id, label, placeholder, name, ariaLabel, type) ==
  [ t |-> "obj", id |-> id, selector |-> id,
    label |-> label, placeholder |-> placeholder, name |-> name,
    ariaLabel |-> ariaLabel, type |-> type ]

\* label, placeholder and name of the first name: 0.50 + 0.30 + 0.15
fFirst ==
  Field("fname", <<"F","i","r","s","t"," ","N","a","m","e">>,
        <<"F","i","r","s","t"," ","N","a","m","e">>, <<"f","n","a","m","e">>, <<>>, "text")

\* described by its label only
fFirstLabel ==
  Field("fname2", <<"F","i","r","s","t"," ","N","a","m","e">>,
        <<>>, <<>>, <<>>, "text")

\* described by its label only
fLastLabel ==
  Field("lname", <<"L","a","s","t"," ","N","a","m","e">>,
        <<>>, <<>>, <<>>, "text")

\* described by its label only
fEmailLabel ==
  Field("mail", <<"E","m","a","i","l">>,
        <<>>, <<>>, <<>>, "email")

\* no rule knows this label
fColor ==
  Field("color", <<"F","a","v","o","r","i","t","e"," ","C","o","l","o","r">>,
        <<>>, <<>>, <<>>, "text")

\* an e-mail input: 0.95
fEmail ==
  Field("email", <<"E","m","a","i","l">>,
        <<"E","m","a","i","l">>, <<"e","m","a","i","l">>, <<>>, "email")

\* carries the negative keyword "last" of the first-name rule
fVeto ==
  Field("spouse", <<"F","i","r","s","t"," ","N","a","m","e"," ","(","o","f"," ","s","p","o","u","s","e","'","s"," ","l","a","s","t"," ","e","m","p","l","o","y","e","r",")">>,
        <<"F","i","r","s","t"," ","N","a","m","e">>, <<"f","n","a","m","e">>, <<>>, "text")

\* 0.50 + 0.15 * 2/3: exactly 0.6
fZip ==
  Field("zip", <<"Z","i","p">>,
        <<>>, <<"z","a","p">>, <<>>, "text")

\* 0.50 + 0.15 * 3/5: 0.59
fNear ==
  Field("near", <<"F","i","r","s","t"," ","N","a","m","e">>,
        <<>>, <<"f","n","m">>, <<>>, "text")

\* 0.50 + 0.30: exactly 0.8
fGpa ==
  Field("gpa", <<"G","P","A">>,
        <<"G","P","A">>, <<>>, <<>>, "text")

\* a textarea for the skills array
fSkills ==
  Field("skills", <<"S","k","i","l","l","s">>,
        <<"S","k","i","l","l","s">>, <<"s","k","i","l","l","s">>, <<>>, "textarea")

\* scores the same for the first-name and the last-name rule
fName ==
  Field("name", <<"N","a","m","e">>,
        <<"N","a","m","e">>, <<"n","a","m","e">>, <<>>, "text")

\* an input type no rule accepts
fPassword ==
  Field("pwd", <<"F","i","r","s","t"," ","N","a","m","e">>,
        <<"F","i","r","s","t"," ","N","a","m","e">>, <<"f","n","a","m","e">>, <<>>, "password")

\* a number input
fGpaNumber ==
  Field("gpan", <<"G","P","A">>,
        <<"G","P","A">>, <<"g","p","a">>, <<>>, "number")

\* described by its aria-label only
fAria ==
  Field("aria", <<>>,
        <<>>, <<>>, <<"F","i","r","s","t"," ","N","a","m","e">>, "text")

\* all four attributes of the first name: 0.50 + 0.30 + 0.15 + 0.05
fAll ==
  Field("all", <<"F","i","r","s","t"," ","N","a","m","e">>,
        <<"F","i","r","s","t"," ","N","a","m","e">>, <<"f","n","a","m","e">>, <<"F","i","r","s","t"," ","N","a","m","e">>, "text")

\* label and placeholder are the same pattern of one rule: 0.50 + 0.30
fAppFirst ==
  Field("first", <<"F","i","r","s","t"," ","N","a","m","e">>,
        <<"F","i","r","s","t"," ","N","a","m","e">>, <<>>, <<>>, "text")

\* likewise
fAppLast ==
  Field("last", <<"L","a","s","t"," ","N","a","m","e">>,
        <<"L","a","s","t"," ","N","a","m","e">>, <<>>, <<>>, "text")

\* likewise
fAppEmail ==
  Field("mail2", <<"E","m","a","i","l">>,
        <<"E","m","a","i","l">>, <<>>, <<>>, "email")

\* likewise
fAppZip ==
  Field("zip2", <<"Z","i","p"," ","C","o","d","e">>,
        <<"Z","i","p"," ","C","o","d","e">>, <<>>, <<>>, "text")

\* likewise
fAppSkills ==
  Field("skills2", <<"S","k","i","l","l","s">>,
        <<"S","k","i","l","l","s">>, <<>>, <<>>, "textarea")

\* the label names the gpa and the placeholder the zip code: 0.50 for the one rule, 0.30 for the other
fGpaZip ==
  Field("gpazip", <<"G","P","A">>,
        <<"Z","i","p">>, <<>>, <<>>, "text")

\* described by its label and its aria-label: 0.50 + 0.05
fLabelAria ==
  Field("la", <<"F","i","r","s","t"," ","N","a","m","e">>,
        <<>>, <<>>, <<"F","i","r","s","t"," ","N","a","m","e">>, "text")

\* label, placeholder and name are each misspelt
fBlurred ==
  Field("blur", <<"F","r","i","s","t"," ","N","a","m","e">>,
        <<"F","r","s"," ","N","m">>, <<"f","n","m">>, <<>>, "text")

\* the label is the phrase 'email address' of the e-mail rule
fEmailAddress ==
  Field("addr", <<"e","m","a","i","l"," ","a","d","d","r","e","s","s">>,
        <<>>, <<>>, <<>>, "text")

\* an object without any of the attributes
fBare ==
  Field("", <<>>,
        <<>>, <<>>, <<>>, "")

\* the field descriptors calculateConfidence is tabulated for
FieldPool ==
  { fFirst, fFirstLabel, fLastLabel, fEmailLabel, fColor, fEmail,
    fVeto, fZip, fNear, fGpa, fSkills, fName,
    fPassword, fGpaNumber, fAria, fAll, fAppFirst, fAppLast,
    fAppEmail, fAppZip, fAppSkills, fGpaZip, fLabelAria, fBlurred,
    fEmailAddress, fBare }

\* calculateConfidence of every field of FieldPool against every rule of the
\* registry.  Merging with the empty function makes TLC compute the table
\* once, when it is first used, instead of at every application.
confidenceTable ==
  [ formField \in FieldPool, profilePath \in DOMAIN FIELD_PATTERNS |->
      calculateConfidence(formField, getPatternForPath(profilePath),
                          getNegativeKeywords(profilePath)) ] @@ <<>>

(***************************************************************************)
(* JavaScript values: null / undefined, strings, numbers, arrays, objects  *)
(***************************************************************************)
NullV == [t |-> "null"]

Str(s) == [t |-> "str", v |-> s]

Num(n) == [t |-> "num", v |-> n]

Arr(a) == [t |-> "arr", v |-> a]

Obj(f) == [t |-> "obj", f |-> f]

\* decimal digits of a natural number (String(n))
RECURSIVE digits(_)
digits(n) ==
  Only({
      IF n < 10 THEN <<d>> ELSE Append(digits(n \div 10), d)
    : d \in {<<"0","1","2","3","4","5","6","7","8","9">>[(n % 10) + 1]} })

\* the text of an array element inside Array.prototype.join
elementText(v) ==
  CASE v.t = "str" -> v.v
    [] v.t = "num" -> digits(v.v)
    [] OTHER       -> <<>>

arrayJoin(a, sep) == join([i \in 1..Len(a) |-> elementText(a[i])], sep)

\* Number(s) is NaN for a string s.  Covers the decimal literals
\* [+-]digits[.digits] and the empty (all-blank) string, which is 0;
\* exponents, radix prefixes and "Infinity" do not occur in the value pool.
stringIsNaN(s) ==
  Only({
      IF u = <<>> THEN FALSE
      ELSE Only({
          Only({
            ~(digs >= 1 /\ dots =< 1 /\ digs + dots = Len(body))
          : dots \in {Len(SelectSeq(body, LAMBDA c : c = "."))},
            digs \in {Len(SelectSeq(body, IsDigit))} })
        : body \in {IF Head(u) \in {"+", "-"} THEN Tail(u) ELSE u} })
    : u \in {trim(s)} })

\* isNaN(value): the argument is coerced with Number()
isNaN(v) ==
  CASE v.t = "num"  -> FALSE
    [] v.t = "str"  -> stringIsNaN(v.v)
    [] v.t = "arr"  -> IF Len(v.v) = 0 THEN FALSE
                       ELSE IF Len(v.v) = 1 THEN stringIsNaN(elementText(v.v[1]))
                       ELSE TRUE
    [] v.t = "null" -> FALSE                 \* Number(null) is 0
    [] OTHER        -> TRUE

(***************************************************************************)
(* mapper.js                                                               *)
(***************************************************************************)
RECURSIVE walkPath(_, _, _)
walkPath(value, keys, k) ==
  IF k > Len(keys) THEN value
  ELSE IF value.t = "obj" /\ keys[k] \in DOMAIN value.f
       THEN walkPath(value.f[keys[k]], keys, k + 1)
       ELSE NullV

getProfileFieldValue(profile, profilePath) == walkPath(profile, profilePath, 1)

\* profilePath.includes(word), for a word that is a whole key of the path
pathIncludes(profilePath, word) == \E k \in 1..Len(profilePath) : profilePath[k] = word

\* the email rule with the test for "@" left out
isEmailValue_anyString(profileValue) == profileValue.t = "str"

\* typeof profileValue === 'string' && profileValue.includes('@')
isEmailValue(profileValue) ==
  profileValue.t = "str" /\ includes(profileValue.v, <<"@">>)

validateFieldType(formField, profilePath, profileValue) ==
  IF profileValue.t = "null" THEN FALSE
  ELSE IF formField.t = "null" THEN FALSE                 \* TypeError, caught
  ELSE IF formField.type = "email" /\ pathIncludes(profilePath, "email")
       THEN isEmailValue(profileValue)
  ELSE IF formField.type = "tel" /\ pathIncludes(profilePath, "phone")
       THEN profileValue.t = "str"
  ELSE IF formField.type = "number"
       THEN ~isNaN(profileValue)
  ELSE IF formField.type = "url"
       THEN profileValue.t = "str"
            /\ (startsWith(profileValue.v, <<"h","t","t","p",":","/","/">>)
                \/ startsWith(profileValue.v, <<"h","t","t","p","s",":","/","/">>))
  ELSE IF formField.type = "file" /\ pathIncludes(profilePath, "resume")
       THEN TRUE
  ELSE IF formField.type = "select" \/ formField.type = "select-one"
       THEN profileValue.t = "str" /\ Len(profileValue.v) > 0
  ELSE IF formField.type = "textarea"
       THEN profileValue.t = "str" \/ profileValue.t = "arr"
  ELSE profileValue.t = "str" \/ profileValue.t = "num"

\* a || b || c on strings: the first non-empty one, else the last
firstNonEmpty(a, b, c) == IF a # <<>> THEN a ELSE IF b # <<>> THEN b ELSE c

inSeq(x, s) == \E i \in 1..Len(s) : s[i] = x

\* the empty-value test with the comparison to '' left out
isEmptyValue_nullOnly(profileValue) == profileValue.t = "null"

\* profileValue === null || profileValue === undefined || profileValue === ''
isEmptyValue(profileValue) ==
  profileValue.t = "null" \/ (profileValue.t = "str" /\ profileValue.v = <<>>)

requiresReview_atMost(finalScore) == DLeq(finalScore, Dbl(8, 10))

\* requiresReview: finalScore < 0.8
requiresReview(finalScore) == DLess(finalScore, Dbl(8, 10))

bestMatchRecord(formField, profilePath, profileValue, finalScore, matchedStr) ==
  [ t                 |-> "obj",
    formFieldId       |-> formField.id,
    formFieldSelector |-> formField.selector,
    formFieldLabel    |-> firstNonEmpty(formField.label, formField.placeholder, formField.name),
    formFieldType     |-> formField.type,
    profilePath       |-> profilePath,
    profileValue      |-> IF profileValue.t = "arr"
                          THEN Str(arrayJoin(profileValue.v, <<",", " ">>))
                          ELSE profileValue,
    confidence        |-> finalScore,
    matchedOn         |-> matchedStr,
    requiresReview    |-> requiresReview(finalScore) ]

\* calculateConfidence(formField, pattern, negativeKeywords) as matchField
\* calls it for the rule of profilePath, read from confidenceTable when the
\* field is one of the tabulated ones
confidenceFor(formField, profilePath) ==
  IF formField \in FieldPool
  THEN confidenceTable[formField, profilePath]
  ELSE calculateConfidence(formField, getPatternForPath(profilePath),
                           getNegativeKeywords(profilePath))

\* the score and the weight added
weightedScore_sum(score, weight) == DAdd(score, weight)

\* confidenceResult.score * pattern.weight
weightedScore(score, weight) == DMul(score, weight)

beatsBest_orTies(finalScore, bestScore) == DLeq(bestScore, finalScore)

\* finalScore > bestScore
beatsBest(finalScore, bestScore) == DLess(bestScore, finalScore)

\* one iteration of the loop of matchField: the rule of profilePath against
\* the running best = [bestMatch, bestScore] (bestMatch NullV while none)
matchStep(formField, profile, profilePath, best) ==
  Only({
      IF pattern.t = "null" THEN best
      ELSE IF ~inSeq(formField.type, pattern.fieldTypes) THEN best
      ELSE
        Only({
            Only({
              IF ~beatsBest(finalScore, best.bestScore) THEN best
              ELSE IF ~validateFieldType(formField, profilePath, profileValue) THEN best
              ELSE IF isEmptyValue(profileValue) THEN best
              ELSE [bestMatch |-> bestMatchRecord(formField, profilePath, profileValue,
                                                  finalScore, matchedStr),
                    bestScore |-> finalScore]
            : finalScore \in {weightedScore(confidenceResult.score, pattern.weight)},
              matchedStr \in {IF confidenceResult.matchedOn = "null" THEN "none"
                              ELSE confidenceResult.matchedOn},
              profileValue \in {getProfileFieldValue(profile, profilePath)} })
          : confidenceResult \in {confidenceFor(formField, profilePath)} })
    : pattern \in {getPatternForPath(profilePath)} })

\* the loop of matchField over allPaths
matchLoop(formField, profile, allPaths) ==
  forRange(LAMBDA k, best : matchStep(formField, profile, allPaths[k], best),
           1, Len(allPaths), [bestMatch |-> NullV, bestScore |-> DZero])

\* matchField(formField, profile): a match record, or NullV.  A null
\* formField makes the first property access throw; the catch returns null.
matchField(formField, profile) ==
  IF formField.t = "null" THEN NullV
  ELSE matchLoop(formField, profile, getAllProfilePaths).bestMatch

\* !value: null, undefined, '', 0 are falsy; objects and arrays are truthy
falsy(value) ==
  \/ value.t = "null"
  \/ (value.t = "str" /\ value.v = <<>>)
  \/ (value.t = "num" /\ value.v = 0)

\* formData?.url || ''
urlOrEmpty(formData) ==
  IF formData.t = "obj" /\ ~falsy(formData.url) THEN formData.url ELSE Str(<<>>)

\* the report both error exits of mapProfileToForm return
errorReport(formData, now, message) ==
  [ matches                |-> <<>>,
    unmatchedFormFields    |-> <<>>,
    unmatchedProfileFields |-> <<>>,
    overallConfidence      |-> DZero,
    requiresReview         |-> TRUE,
    url                    |-> urlOrEmpty(formData),
    timestamp              |-> now,
    error                  |-> message ]

unmatchedFormField(formField) ==
  [ id       |-> formField.id,
    label    |-> firstNonEmpty(formField.label, formField.placeholder, formField.name),
    type     |-> formField.type,
    selector |-> formField.selector ]

\* one iteration of the loop over form.fields.  acc holds matches,
\* unmatchedFormFields, usedProfilePaths and thrown, the message of the
\* exception that left the loop ("" while none was thrown)
fieldStep(formField, profile, acc) ==
  IF acc.thrown # "" THEN acc
  ELSE Only({
      IF match.t # "null" /\ DLeq(Dbl(6, 10), match.confidence)
      THEN [acc EXCEPT !.matches = Append(@, match),
                       !.usedProfilePaths = @ \cup {match.profilePath}]
      ELSE IF formField.t = "null"
      THEN [acc EXCEPT !.thrown = "Cannot read properties of null (reading 'id')"]
      ELSE [acc EXCEPT !.unmatchedFormFields = Append(@, unmatchedFormField(formField))]
    : match \in {matchField(formField, profile)} })

\* the iteration without the two tests that skip a form
formStep_unskipped(form, profile, acc) ==
  IF acc.thrown # "" THEN acc
  ELSE forRange(LAMBDA i, a : fieldStep(form.fields[i], profile, a),
                1, Len(form.fields), acc)

\* one iteration of the loop over formData.forms
formStep(form, profile, acc) ==
  IF acc.thrown # "" THEN acc
  ELSE IF form.hasCaptcha THEN acc
  ELSE IF form.type = "google-forms" THEN acc
  ELSE forRange(LAMBDA i, a : fieldStep(form.fields[i], profile, a),
                1, Len(form.fields), acc)

\* the value an entry of unmatchedProfileFields shows
shownValue(value) ==
  IF value.t = "arr" THEN Str(arrayJoin(value.v, <<",", " ">>)) ELSE value

\* value !== null && value !== undefined && value !== '' &&
\* (!Array.isArray(value) || value.length > 0)
hasValue(value) ==
  /\ value.t # "null"
  /\ ~(value.t = "str" /\ value.v = <<>>)
  /\ ~(value.t = "arr" /\ Len(value.v) = 0)

\* the list with the paths of the matches kept in
unmatchedProfileFields_keepUsed(profile, usedProfilePaths) ==
  Only({
      [i \in 1..Len(kept) |->
        [path  |-> kept[i],
         value |-> shownValue(getProfileFieldValue(profile, kept[i]))]]
    : kept \in {SelectSeq(getAllProfilePaths, LAMBDA path :
                hasValue(getProfileFieldValue(profile, path)))} })

\* the unused profile fields that have a value, in registry order
unmatchedProfileFields(profile, usedProfilePaths) ==
  Only({
      [i \in 1..Len(kept) |->
        [path  |-> kept[i],
         value |-> shownValue(getProfileFieldValue(profile, kept[i]))]]
    : kept \in {SelectSeq(getAllProfilePaths, LAMBDA path :
                /\ path \notin usedProfilePaths
                /\ hasValue(getProfileFieldValue(profile, path)))} })

\* matches.reduce((sum, m) => sum + m.confidence, 0) / matches.length, or 0
meanConfidence(matches) ==
  IF Len(matches) > 0
  THEN DDivInt(forRange(LAMBDA i, sum : DAdd(sum, matches[i].confidence),
                        1, Len(matches), DZero),
               Len(matches))
  ELSE DZero

\* Math.round(x * 100) / 100
roundHundredths(x) == Dbl(MathRound(DMul(x, DInt(100))), 100)

\* matches.some(m => m.requiresReview) || overallConfidence < 0.8
reportRequiresReview(matches, overallConfidence) ==
  \/ \E i \in 1..Len(matches) : matches[i].requiresReview
  \/ DLess(overallConfidence, Dbl(8, 10))

mapProfileToForm(profile, formData, now) ==
  IF falsy(profile) \/ falsy(formData) \/ formData.t # "obj" \/ falsy(formData.forms)
  THEN errorReport(formData, now, "Invalid input data")
  ELSE IF formData.forms.t # "arr"
  THEN errorReport(formData, now, "formData.forms is not iterable")
  ELSE
    Only({
        IF done.thrown # "" THEN errorReport(formData, now, done.thrown)
        ELSE
          Only({
              [ matches                |-> done.matches,
                unmatchedFormFields    |-> done.unmatchedFormFields,
                unmatchedProfileFields |-> unmatchedProfileFields(profile, done.usedProfilePaths),
                overallConfidence      |-> roundHundredths(overallConfidence),
                requiresReview         |-> reportRequiresReview(done.matches, overallConfidence),
                url                    |-> formData.url,
                timestamp              |-> now,
                error                  |-> "undefined" ]
            : overallConfidence \in {meanConfidence(done.matches)} })
      : done \in {forRange(LAMBDA i, a : formStep(formData.forms.v[i], profile, a),
                  1, Len(formData.forms.v),
                  [ matches |-> <<>>, unmatchedFormFields |-> <<>>,
                    usedProfilePaths |-> {}, thrown |-> "" ])} })

(***************************************************************************)
(* Profile values and the URL of the scanned page                          *)
(***************************************************************************)
vJohn == <<"J","o","h","n">>   \* "John"

vDoe == <<"D","o","e">>   \* "Doe"

vEmail == <<"j","o","h","n","@","x",".","c","o","m">>   \* "john@x.com"

vNoAt == <<"j","o","h","n",".","x",".","c","o","m">>   \* "john.x.com"

vGpa == <<"3",".","8">>   \* "3.8"

vZip == <<"1","2","3","4","5">>   \* "12345"

vJs == <<"j","s">>   \* "js"

vPy == <<"p","y">>   \* "py"

vUrl == <<"h","t","t","p","s",":","/","/","j","o","b","s",".","e","x","a","m","p","l","e","/","a","p","p","l","y">>   \* "https://jobs.example/apply"

vGarbage == <<"g","a","r","b","a","g","e">>   \* "garbage"

(***************************************************************************)
(* Profiles                                                                *)
(***************************************************************************)
\* an object literal: a key whose value is NullV is absent from the object
object(entries) ==
  Obj([key \in {k \in DOMAIN entries : entries[k].t # "null"} |-> entries[key]])

makeProfile(firstName, lastName, email, gpa, skills) ==
  object([profile |->
    object([personal   |-> object([firstName |-> firstName, lastName |-> lastName,
                                   email |-> email, zipCode |-> Str(vZip)]),
            education  |-> object([gpa |-> gpa]),
            experience |-> object([skills |-> skills])])])

FirstNames == {NullV, Str(<<>>), Str(vJohn)}

LastNames == {NullV, Str(vDoe)}

Emails == {Str(<<>>), Str(vNoAt), Str(vEmail)}

Gpas == {Str(<<>>), Str(vGpa)}

SkillSets == {NullV, Arr(<<>>), Arr(<<Str(vJs), Str(vPy)>>)}

fullProfile == makeProfile(Str(vJohn), Str(vDoe), Str(vEmail), Str(vGpa), Arr(<<Str(vJs), Str(vPy)>>))

sparseProfile == makeProfile(Str(<<>>), Str(vDoe), Str(vNoAt), Str(<<>>), Arr(<<>>))

\* a truthy value that is no profile object
garbageProfile == Str(vGarbage)

\* the profiles matchField is called with
ProfilePool ==
  { makeProfile(fn, ln, em, g, sk) :
      fn \in FirstNames, ln \in LastNames, em \in Emails, g \in Gpas, sk \in SkillSets }
  \cup {NullV, garbageProfile}

\* the profile of the end-to-end example
endToEndProfile ==
  object([profile |->
    object([personal |-> object([firstName |-> Str(vJohn), lastName |-> Str(vDoe),
                                 email |-> Str(vEmail)])])])

\* the values mapProfileToForm is given as a profile that are no profile
InvalidProfiles == {NullV, garbageProfile}

(***************************************************************************)
(* Scanned forms                                                           *)
(***************************************************************************)
MaxFields == 2    \* fields of one scan, over all its forms

MaxForms == 2     \* forms of one scan

MaxNow == 1       \* clock readings after the first

MaxLen == 4       \* length of the strings normalizeText is applied to

\* the entries of form.fields; NullV is a malformed entry
FormFieldPool == {fFirst, fZip, fNear, NullV}

Form(kind, fields) ==
  [ t |-> "obj", id |-> "form", hasCaptcha |-> (kind = "captcha"),
    type |-> IF kind = "google" THEN "google-forms" ELSE "standard",
    fields |-> fields ]

FormKinds == {"plain", "captcha", "google"}

FieldSeqs(n) == UNION { [1..m -> FormFieldPool] : m \in 0..n }

\* the field lists of a form: a form the mapper skips carries no field or one
FormFields(kind, n) ==
  IF kind = "plain" THEN FieldSeqs(n) ELSE {fields \in {<<>>, <<fFirst>>} : Len(fields) =< n}

RECURSIVE FormSeqs(_, _)
\* the sequences of at most n forms with at most m fields in all
FormSeqs(n, m) ==
  IF n = 0 THEN {<<>>}
  ELSE {<<>>} \cup
       UNION { UNION { { <<Form(kind, fields)>> \o rest :
                           rest \in FormSeqs(n - 1, m - Len(fields)) } :
                       fields \in FormFields(kind, m) } :
               kind \in FormKinds }

FormData(forms) == [t |-> "obj", url |-> Str(vUrl), forms |-> forms]

\* the form of the end-to-end example: four fields described by label and type
endToEndFormData ==
  FormData(Arr(<<Form("plain", <<fFirstLabel, fLastLabel, fEmailLabel, fColor>>)>>))

\* an application form of six fields that score exactly 0.8 each
applicationFormData ==
  FormData(Arr(<<Form("plain", <<fAppFirst, fAppLast, fAppEmail, fAppZip, fGpa, fAppSkills>>)>>))

\* a form with a password input, which no rule accepts, before a text input,
\* and the same form with a null entry in place of the text input
passwordFormData == FormData(Arr(<<Form("plain", <<fPassword, fFirst>>)>>))

passwordThenNullFormData == FormData(Arr(<<Form("plain", <<fPassword, NullV>>)>>))

\* a form of fields that lack a placeholder and a name, or the label, and one
\* with a null entry after such a field
sparseFormData == FormData(Arr(<<Form("plain", <<fLabelAria, fAria, fEmailAddress>>)>>))

labelThenNullFormData == FormData(Arr(<<Form("plain", <<fFirstLabel, NullV>>)>>))

\* a form with a field whose label, placeholder and name are misspelt
misspeltFormData == FormData(Arr(<<Form("plain", <<fBlurred, fZip>>)>>))

\* a scan result without its forms list
formlessData == [t |-> "obj", url |-> Str(vUrl), forms |-> NullV]

FormDataPool ==
  { FormData(Arr(forms)) : forms \in FormSeqs(MaxForms, MaxFields) }
  \cup {NullV, formlessData}

\* the pairs of arguments mapProfileToForm is called with
MapInputs ==
  ({fullProfile} \X FormDataPool)
  \cup ({sparseProfile} \X { FormData(Arr(forms)) : forms \in FormSeqs(1, MaxFields) })
  \cup (InvalidProfiles \X {NullV, formlessData, FormData(Arr(<<>>)),
                            FormData(Arr(<<Form("plain", <<fFirst>>)>>))})
  \cup {<<endToEndProfile, endToEndFormData>>, <<fullProfile, applicationFormData>>,
          <<fullProfile, passwordFormData>>, <<fullProfile, passwordThenNullFormData>>,
          <<fullProfile, sparseFormData>>, <<fullProfile, labelThenNullFormData>>,
          <<fullProfile, misspeltFormData>>}

(***************************************************************************)
(* Strings normalizeText is applied to                                     *)
(***************************************************************************)
Alphabet == {"a", "B", "1", "-", " "}

Texts == UNION { [1..m -> Alphabet] : m \in 0..MaxLen }

(***************************************************************************)
(* Arguments of scoreFuzzyMatch, calculateLevenshteinDistance and          *)
(* validateFieldType                                                       *)
(***************************************************************************)
MaxWord == 3      \* length of the strings that are compared

Letters == {"a", "B", " "}

Words == UNION { [1..m -> Letters] : m \in 0..MaxWord }

\* a field of each input type validateFieldType tells apart and of two it
\* does not, and no field
TypedFields ==
  { Field("input", <<>>, <<>>, <<>>, <<>>, type) :
      type \in {"email", "tel", "number", "url", "file", "select", "select-one",
                "textarea", "text", "date"} } \cup {NullV}

vHttp == <<"h","t","t","p",":","/","/","x",".","i","o">>   \* "http://x.io"

\* null, strings, numbers, arrays and an object
ValuePool ==
  { NullV, Str(<<>>), Str(vJohn), Str(vEmail), Str(vNoAt), Str(vGpa), Str(vUrl), Str(vHttp),
    Str(<<"s","e","e"," ">> \o vHttp), Num(0), Num(38), Arr(<<>>), Arr(<<Str(vGpa)>>), Arr(<<Str(vJs), Str(vPy)>>),
    Obj(<<>>) }

(***************************************************************************)
(* The engine and its caller                                               *)
(***************************************************************************)
\* the tables of rules.js as the module holds them once it is loaded
Registry ==
  [ FIELD_PATTERNS    |-> FIELD_PATTERNS,
    keys              |-> getAllProfilePaths,
    NEGATIVE_KEYWORDS |-> NEGATIVE_KEYWORDS ]

VARIABLES
  op,           \* the exported function the caller invokes
  argText,      \* argument of normalizeText, first string of a comparison
  argText2,     \* second string of a comparison
  argField,     \* argument of calculateConfidence, matchField, validateFieldType
  argPath,      \* the rule calculateConfidence and validateFieldType are called for
  argValue,     \* the profile value validateFieldType is called for
  argProfile,   \* argument of matchField and mapProfileToForm
  argFormData,  \* argument of mapProfileToForm
  registry,     \* FIELD_PATTERNS and NEGATIVE_KEYWORDS of rules.js
  clock,        \* the clock new Date() reads
  pc,           \* "idle" before the first call, "returned" after a call
  ret           \* the value the last call returned

vars ==
  <<op, argText, argText2, argField, argPath, argValue, argProfile, argFormData,
    registry, clock, pc, ret>>

args == <<op, argText, argText2, argField, argPath, argValue, argProfile, argFormData>>

\* the state in which the caller makes its first call
Loaded ==
  /\ registry = Registry
  /\ clock = 0
  /\ pc = "idle"
  /\ ret = NullV

Init ==
  /\ Loaded
  /\ argText2 = <<>> /\ argValue = NullV
  /\ \/ /\ op = "normalizeText"
        /\ argText \in Texts
        /\ argField = NullV /\ argPath = <<>> /\ argProfile = NullV /\ argFormData = NullV
     \/ /\ op = "calculateConfidence"
        /\ argField \in FieldPool
        /\ argPath \in DOMAIN FIELD_PATTERNS
        /\ argText = <<>> /\ argProfile = NullV /\ argFormData = NullV
     \/ /\ op = "matchField"
        /\ argField \in FieldPool \cup {NullV}
        /\ argProfile \in ProfilePool
        /\ argText = <<>> /\ argPath = <<>> /\ argFormData = NullV
     \/ /\ op = "mapProfileToForm"
        /\ \E input \in MapInputs : argProfile = input[1] /\ argFormData = input[2]
        /\ argText = <<>> /\ argField = NullV /\ argPath = <<>>

NormalizeText ==
  /\ op = "normalizeText"
  /\ ret' = normalizeText(argText)
  /\ pc' = "returned"
  /\ UNCHANGED <<args, registry, clock>>

CalculateConfidence ==
  /\ op = "calculateConfidence"
  /\ ret' = confidenceFor(argField, argPath)
  /\ pc' = "returned"
  /\ UNCHANGED <<args, registry, clock>>

\* a matchField that answers from state left by an earlier call
MatchField_stateful ==
  /\ op = "matchField"
  /\ ret' = IF pc = "idle" THEN matchField(argField, argProfile) ELSE NullV
  /\ pc' = "returned"
  /\ UNCHANGED <<args, registry, clock>>

MatchField ==
  /\ op = "matchField"
  /\ ret' = matchField(argField, argProfile)
  /\ pc' = "returned"
  /\ UNCHANGED <<args, registry, clock>>

\* a mapProfileToForm that takes the forms off the scan as it goes
MapProfileToForm_consuming ==
  /\ op = "mapProfileToForm"
  /\ ret' = mapProfileToForm(argProfile, argFormData, clock)
  /\ pc' = "returned"
  /\ argFormData' = IF argFormData.t = "obj" /\ argFormData.forms.t = "arr"
                    THEN [argFormData EXCEPT !.forms = Arr(<<>>)]
                    ELSE argFormData
  /\ UNCHANGED <<op, argText, argText2, argField, argPath, argValue, argProfile, registry, clock>>

MapProfileToForm ==
  /\ op = "mapProfileToForm"
  /\ ret' = mapProfileToForm(argProfile, argFormData, clock)
  /\ pc' = "returned"
  /\ UNCHANGED <<args, registry, clock>>

\* time passes between two calls of mapProfileToForm, the one function that
\* reads the clock
Tick ==
  /\ op = "mapProfileToForm"
  /\ pc = "returned"
  /\ clock < MaxNow
  /\ clock' = clock + 1
  /\ UNCHANGED <<args, registry, pc, ret>>

Next ==
  \/ NormalizeText
  \/ CalculateConfidence
  \/ MatchField
  \/ MapProfileToForm
  \/ Tick

Spec == Init /\ [][Next]_vars

(***************************************************************************)
(* The helper functions the engine exports, called on their own            *)
(***************************************************************************)
HelperInit ==
  /\ Loaded
  /\ argProfile = NullV /\ argFormData = NullV
  /\ \/ /\ op \in {"scoreFuzzyMatch", "calculateLevenshteinDistance"}
        /\ argText \in Words
        /\ argText2 \in Words
        /\ argField = NullV /\ argPath = <<>> /\ argValue = NullV
     \/ /\ op = "validateFieldType"
        /\ argField \in TypedFields
        /\ argPath \in DOMAIN FIELD_PATTERNS
        /\ argValue \in ValuePool
        /\ argText = <<>> /\ argText2 = <<>>

ScoreFuzzyMatch ==
  /\ op = "scoreFuzzyMatch"
  /\ ret' = scoreFuzzyMatch(argText, argText2)
  /\ pc' = "returned"
  /\ UNCHANGED <<args, registry, clock>>

CalculateLevenshteinDistance ==
  /\ op = "calculateLevenshteinDistance"
  /\ ret' = calculateLevenshteinDistance(argText, argText2)
  /\ pc' = "returned"
  /\ UNCHANGED <<args, registry, clock>>

ValidateFieldType ==
  /\ op = "validateFieldType"
  /\ ret' = validateFieldType(argField, argPath, argValue)
  /\ pc' = "returned"
  /\ UNCHANGED <<args, registry, clock>>

HelperNext ==
  \/ ScoreFuzzyMatch
  \/ CalculateLevenshteinDistance
  \/ ValidateFieldType

HelperSpec == HelperInit /\ [][HelperNext]_vars


(***************************************************************************)
(* Properties                                                              *)
(***************************************************************************)
\* the last call was mapProfileToForm and ret holds its report
mapReturned == op = "mapProfileToForm" /\ pc = "returned"

\* the last call was matchField and ret holds its result
matchReturned == op = "matchField" /\ pc = "returned"

\* the arguments of mapProfileToForm pass its input validation
wellFormedCall ==
  /\ argProfile.t = "obj"
  /\ argFormData.t = "obj"
  /\ argFormData.forms.t = "arr"

\* the fields of the forms the mapper does not skip, in scan order
scannedFields(formData) ==
  LET forms == formData.forms.v
      kept(form) == ~form.hasCaptcha /\ form.type # "google-forms"
  IN  forRange(LAMBDA i, fields : IF kept(forms[i]) THEN fields \o forms[i].fields ELSE fields,
               1, Len(forms), <<>>)

firstNamePath == <<"profile", "personal", "firstName">>

emailPath == <<"profile", "personal", "email">>

gpaPath == <<"profile", "education", "gpa">>

skillsPath == <<"profile", "experience", "skills">>

\* C1: in every report returned by mapProfileToForm no two entries of
\* matches have the same profilePath, also when a form holds two fields with
\* identical label, placeholder, name and type.
C1_NoPathMatchedTwice ==
  mapReturned =>
    \A i, j \in 1..Len(ret.matches) :
       i # j => ret.matches[i].profilePath # ret.matches[j].profilePath

\* C2: for the profile John / Doe / john@x.com and the form of the four fields
\* described by label and type only, the report has exactly 3 matches of
\* confidence >= 0.8 each, exactly 1 unmatched field ("Favorite Color"),
\* overall confidence >= 0.8 and requires no review.
C2_EndToEndExample ==
  (mapReturned /\ argProfile = endToEndProfile /\ argFormData = endToEndFormData) =>
    /\ Len(ret.matches) = 3
    /\ \A i \in 1..Len(ret.matches) : DLeq(Dbl(8, 10), ret.matches[i].confidence)
    /\ Len(ret.unmatchedFormFields) = 1
    /\ \A i \in 1..Len(ret.unmatchedFormFields) : ret.unmatchedFormFields[i].label = fColor.label
    /\ DLeq(Dbl(8, 10), ret.overallConfidence)
    /\ ~ret.requiresReview

\* C3: for every field of every form that is not skipped, the report holds the
\* field in matches exactly when matchField returns a match of confidence
\* >= 0.6 for it (exactly 0.6 is accepted), and in unmatchedFormFields
\* otherwise.
C3_ThresholdDecidesPlacement ==
  (mapReturned /\ wellFormedCall) =>
    LET fields == scannedFields(argFormData)
    IN  \A k \in 1..Len(fields) :
          fields[k].t # "null" =>
            LET match    == matchField(fields[k], argProfile)
                accepted == match.t # "null" /\ DLeq(Dbl(6, 10), match.confidence)
                inMatches   == \E i \in 1..Len(ret.matches) : ret.matches[i] = match
                inUnmatched == \E i \in 1..Len(ret.unmatchedFormFields) :
                                  ret.unmatchedFormFields[i].id = fields[k].id
            IN  /\ inMatches <=> accepted
                /\ inUnmatched <=> ~accepted

\* C4: every match returned by matchField carries a resolved profile value
\* that is not null, not the empty string and not an empty array, and that
\* passes validateFieldType for the field, for every field type.
C4_MatchValueNonEmptyAndCompatible ==
  (matchReturned /\ ret.t # "null") =>
    LET value == getProfileFieldValue(argProfile, ret.profilePath)
    IN  /\ value.t # "null"
        /\ ~(value.t = "str" /\ value.v = <<>>)
        /\ ~(value.t = "arr" /\ value.v = <<>>)
        /\ validateFieldType(argField, ret.profilePath, value)

\* the lower-cased text of label, placeholder and name holds one of the
\* negative keywords of the rule of profilePath
vetoed(formField, profilePath) ==
  LET words == NEGATIVE_KEYWORDS[profilePath]
      whole == toLowerCase(formField.label \o <<" ">> \o formField.placeholder
                           \o <<" ">> \o formField.name)
  IN  /\ profilePath \in DOMAIN NEGATIVE_KEYWORDS
      /\ \E k \in 1..Len(words) : includes(whole, words[k])

\* C5: when a negative keyword of the rule occurs in the lower-cased text of
\* the field's label, placeholder and name, calculateConfidence returns score
\* 0 and no matchedOn, however well the attributes match the rule's phrases.
C5_NegativeKeywordVetoes ==
  (op = "calculateConfidence" /\ pc = "returned" /\ vetoed(argField, argPath)) =>
    ret.score = DZero /\ ret.matchedOn = "null"

\* the veto word "last" of the first-name rule met in a field whose
\* placeholder is the phrase "First Name" itself
C5_Witness ==
  /\ op = "calculateConfidence" /\ pc = "returned"
  /\ argField = fVeto /\ argPath = firstNamePath
  /\ vetoed(argField, argPath)
  /\ scoreMatch(argField, getPatternForPath(argPath), "placeholder") = Dbl(3, 10)
  /\ ret.score = DZero

\* formData with the null entries of every field list removed
withoutMalformed(formData) ==
  LET forms == formData.forms.v
      clean(form) == [form EXCEPT !.fields = SelectSeq(@, LAMBDA entry : entry.t # "null")]
  IN  [formData EXCEPT !.forms = Arr([i \in 1..Len(forms) |-> clean(forms[i])])]

\* C6: when an entry of a form's field list is malformed, every other field
\* is classified as it would be without that entry and the report carries no
\* error marker.
C6_MalformedFieldDoesNotBlock ==
  (mapReturned /\ wellFormedCall /\ withoutMalformed(argFormData) # argFormData) =>
    LET expected == mapProfileToForm(argProfile, withoutMalformed(argFormData), clock)
    IN  /\ ret.error = "undefined"
        /\ ret.matches = expected.matches
        /\ ret.unmatchedFormFields = expected.unmatchedFormFields

\* the report of the error exits
emptyErrorReport ==
  /\ ret.matches = <<>>
  /\ ret.unmatchedFormFields = <<>>
  /\ ret.unmatchedProfileFields = <<>>
  /\ ret.overallConfidence = DZero
  /\ ret.requiresReview
  /\ ret.error # "undefined"

inputAbsent ==
  \/ argProfile.t = "null"
  \/ argFormData.t = "null"
  \/ (argFormData.t = "obj" /\ argFormData.forms.t = "null")

\* C7: with the profile absent, or the scan absent or without a forms list,
\* mapProfileToForm returns the empty report with review required and an
\* error marker; and every report without an error marker comes from
\* well-formed inputs.
C7_ErrorMarkerTellsGarbage ==
  mapReturned =>
    /\ inputAbsent => emptyErrorReport
    /\ ret.error = "undefined" => wellFormedCall

\* C8: normalizeText is idempotent: normalizing its result changes nothing.
C8_NormalizeIdempotent ==
  (op = "normalizeText" /\ pc = "returned") => normalizeText(ret) = ret

\* C9: for a field of input type email, matchField returns no match whose
\* value is not a string containing "@", whatever the field's label,
\* placeholder, name and ariaLabel.
C9_EmailFieldNeedsAt ==
  (matchReturned /\ argField.t # "null" /\ argField.type = "email" /\ ret.t # "null") =>
    ret.profileValue.t = "str" /\ includes(ret.profileValue.v, <<"@">>)

\* an e-mail input with a perfect label against a profile whose e-mail
\* lacks "@": no match
C9_Witness ==
  /\ matchReturned
  /\ argField = fEmail
  /\ getProfileFieldValue(argProfile, emailPath) = Str(vNoAt)
  /\ confidenceFor(argField, emailPath).score = DAdd(DAdd(Dbl(5, 10), Dbl(3, 10)), Dbl(15, 100))
  /\ ret.t = "null"

\* C10: when the profile value at a path is the empty string, matchField
\* returns no match on that path for any field, and the path is in the
\* matches of no report.
C10_EmptyStringNeverMatched ==
  /\ (matchReturned /\ ret.t # "null") =>
        getProfileFieldValue(argProfile, ret.profilePath) # Str(<<>>)
  /\ mapReturned =>
        \A i \in 1..Len(ret.matches) :
           getProfileFieldValue(argProfile, ret.matches[i].profilePath) # Str(<<>>)

\* the field labelled "GPA" against a profile whose gpa is '': no match
C10_Witness ==
  /\ matchReturned
  /\ argField = fGpa
  /\ getProfileFieldValue(argProfile, gpaPath) = Str(<<>>)
  /\ confidenceFor(argField, gpaPath).score = Dbl(8, 10)
  /\ ret.t = "null"

\* the match records a returned value holds: the result of matchField, or the
\* entries of matches of a report
returnedMatches ==
  IF matchReturned THEN (IF ret.t = "null" THEN {} ELSE {ret})
  ELSE IF mapReturned THEN { ret.matches[i] : i \in 1..Len(ret.matches) }
  ELSE {}

\* C11: every match produced by matchField has requiresReview true exactly
\* when its confidence is strictly below 0.8; a confidence of exactly 0.8
\* gives requiresReview false.
C11_ReviewBelowEightTenths ==
  \A match \in returnedMatches :
     /\ match.requiresReview <=> DLess(match.confidence, Dbl(8, 10))
     /\ match.confidence = Dbl(8, 10) => ~match.requiresReview

\* matchField returned a match of confidence exactly 0.8, not flagged for review
C11_Witness ==
  /\ matchReturned
  /\ ret.t # "null"
  /\ ret.confidence = Dbl(8, 10)
  /\ ~ret.requiresReview

\* formData without the forms flagged hasCaptcha or of type google-forms
withoutSkipped(formData) ==
  [formData EXCEPT !.forms =
     Arr(SelectSeq(formData.forms.v,
                   LAMBDA form : ~form.hasCaptcha /\ form.type # "google-forms"))]

\* the report is the one the scan without its flagged forms gives
skippedFormsLeaveNoTrace ==
  ret = mapProfileToForm(argProfile, withoutSkipped(argFormData), ret.timestamp)

\* every field of the forms that are not flagged is an entry of matches or of
\* unmatchedFormFields
remainingFieldsProcessed ==
  Len(ret.matches) + Len(ret.unmatchedFormFields) = Len(scannedFields(argFormData))

\* C12: no field of a form flagged hasCaptcha or of type google-forms
\* appears in matches or in unmatchedFormFields, and such a form's fields
\* consume no profile path; the fields of the remaining forms are all
\* processed.
C12_FlaggedFormsSkipped ==
  (mapReturned /\ wellFormedCall) =>
    skippedFormsLeaveNoTrace /\ remainingFieldsProcessed

\* diagnostics of C12: the flagged forms leave no trace in any report, and the
\* remaining fields are all processed when no field list holds a null entry
C12_SkipPart == (mapReturned /\ wellFormedCall) => skippedFormsLeaveNoTrace

C12_WithoutNull ==
  (mapReturned /\ wellFormedCall /\ withoutMalformed(argFormData) = argFormData) =>
    remainingFieldsProcessed

C12_SkipReached ==
  /\ mapReturned /\ wellFormedCall
  /\ withoutSkipped(argFormData) # argFormData
  /\ \E i \in 1..Len(argFormData.forms.v) :
        /\ argFormData.forms.v[i].hasCaptcha
        /\ argFormData.forms.v[i].fields = <<fFirst>>
  /\ Len(ret.matches) = 1

\* C13: two invocations of mapProfileToForm with equal profile and equal
\* scan, made at different times, return reports equal in every field, url
\* and timestamp included.
C13_ReportDependsOnInputsOnly ==
  [][(mapReturned /\ MapProfileToForm) => ret' = ret]_vars

\* diagnostic of C13: the two reports agree in every field but timestamp
C13_EqualButTimestamp ==
  [][(mapReturned /\ MapProfileToForm) =>
       [ret' EXCEPT !.timestamp = 0] = [ret EXCEPT !.timestamp = 0]]_vars

finalScoreOf(formField, profilePath) ==
  DMul(confidenceFor(formField, profilePath).score, getPatternForPath(profilePath).weight)

\* the rule of profilePath accepts the type of formField, and the profile has
\* a value for it that is present, valid for the field and not empty
eligible(formField, profile, profilePath) ==
  LET pattern == getPatternForPath(profilePath)
      value   == getProfileFieldValue(profile, profilePath)
  IN  /\ pattern.t # "null"
      /\ inSeq(formField.type, pattern.fieldTypes)
      /\ value.t # "null"
      /\ validateFieldType(formField, profilePath, value)
      /\ ~(value.t = "str" /\ value.v = <<>>)
      /\ ~(value.t = "arr" /\ value.v = <<>>)

\* the positions in the registry of the eligible rules no eligible rule
\* outscores
topEligible(formField, profile) ==
  LET paths == getAllProfilePaths
      ok(k) == eligible(formField, profile, paths[k])
  IN  { k \in 1..Len(paths) :
          /\ ok(k)
          /\ \A j \in 1..Len(paths) :
               ok(j) => ~DLess(finalScoreOf(formField, paths[k]),
                               finalScoreOf(formField, paths[j])) }

\* the running best of matchField after the first k rules
bestAfter(formField, profile, k) ==
  matchLoop(formField, profile, SubSeq(getAllProfilePaths, 1, k))

C16_AggregateIsMean ==
  mapReturned =>
    ret.overallConfidence =
      IF Len(ret.matches) = 0 THEN DZero
      ELSE DDivInt(forRange(LAMBDA i, sum : DAdd(sum, ret.matches[i].confidence),
                            1, Len(ret.matches), DZero),
                   Len(ret.matches))

\* diagnostic of C16: overallConfidence is the mean rounded to hundredths,
\* halves upwards
C16_AggregateIsRoundedMean ==
  mapReturned => ret.overallConfidence = roundHundredths(meanConfidence(ret.matches))

\* C17: in every report without an error marker, requiresReview is true if
\* some entry of matches has requiresReview true or the report's
\* overallConfidence is below 0.8, and false otherwise.
C17_ReportReviewFlag ==
  (mapReturned /\ ret.error = "undefined") =>
    (ret.requiresReview <=>
       \/ \E i \in 1..Len(ret.matches) : ret.matches[i].requiresReview
       \/ DLess(ret.overallConfidence, Dbl(8, 10)))

\* diagnostic of C17: the flag of the report is computed from the mean before
\* it is rounded to hundredths
C17_FlagFromUnroundedMean ==
  (mapReturned /\ ret.error = "undefined") =>
    (ret.requiresReview <=>
       \/ \E i \in 1..Len(ret.matches) : ret.matches[i].requiresReview
       \/ DLess(meanConfidence(ret.matches), Dbl(8, 10)))

\* six unflagged matches of confidence 0.8: their sum divided by six is
\* below 0.8, the report shows 0.8 and requires review
C17_SixEightTenthsReached ==
  /\ mapReturned /\ ret.error = "undefined"
  /\ Len(ret.matches) = 6
  /\ \A i \in 1..Len(ret.matches) :
        ret.matches[i].confidence = Dbl(8, 10) /\ ~ret.matches[i].requiresReview
  /\ DLess(meanConfidence(ret.matches), Dbl(8, 10))
  /\ ret.overallConfidence = Dbl(8, 10)
  /\ ret.requiresReview

\* a report of two unflagged matches whose overallConfidence is at least 0.8
\* requires no review
C17_UnflaggedReached ==
  /\ mapReturned /\ ret.error = "undefined"
  /\ Len(ret.matches) = 2
  /\ \A i \in 1..Len(ret.matches) : ~ret.matches[i].requiresReview
  /\ DLeq(Dbl(8, 10), ret.overallConfidence)
  /\ ~ret.requiresReview

\* a report without matches has overallConfidence 0 and requires review
C17_EmptyReached ==
  /\ mapReturned /\ ret.error = "undefined"
  /\ ret.matches = <<>>
  /\ ret.overallConfidence = DZero
  /\ ret.requiresReview

\* the paths the report lists in unmatchedProfileFields
listedPaths ==
  { ret.unmatchedProfileFields[i].path : i \in 1..Len(ret.unmatchedProfileFields) }

\* the paths of the entries of matches
matchedPaths == { ret.matches[i].profilePath : i \in 1..Len(ret.matches) }

\* a resolved profile value that is missing, the empty string or an empty array
emptyResolved(value) ==
  \/ value.t = "null"
  \/ (value.t = "str" /\ value.v = <<>>)
  \/ (value.t = "arr" /\ value.v = <<>>)

inUnitInterval(x) == DLeq(DZero, x) /\ DLeq(x, DOne)

\* C19: the score returned by calculateConfidence, and the confidence of
\* every match, lies in the closed interval [0, 1] for every field
\* descriptor and every rule.
C19_ScoresInUnitInterval ==
  /\ (op = "calculateConfidence" /\ pc = "returned") => inUnitInterval(ret.score)
  /\ \A match \in returnedMatches : inUnitInterval(match.confidence)

\* calculateConfidence returned the upper bound: the four attributes of the
\* field are patterns of the rule
C19_Witness ==
  /\ op = "calculateConfidence" /\ pc = "returned"
  /\ argField.label # <<>> /\ argField.placeholder # <<>>
  /\ argField.name # <<>> /\ argField.ariaLabel # <<>>
  /\ ret.score = DOne

\* calculateConfidence returned a score strictly inside the interval
C19_InsideReached ==
  /\ op = "calculateConfidence" /\ pc = "returned"
  /\ DLess(DZero, ret.score) /\ DLess(ret.score, DOne)

\* matchField returned a match of confidence 1
C19_MatchAtOneReached ==
  matchReturned /\ ret.t # "null" /\ ret.confidence = DOne

\* some rule of the registry lists the input type among its fieldTypes
acceptedBySomeRule(type) ==
  \E profilePath \in DOMAIN FIELD_PATTERNS :
     inSeq(type, FIELD_PATTERNS[profilePath].fieldTypes)

\* every returned match is for a rule that accepts the field's input type
matchesAreTypeAccepted ==
  \A match \in returnedMatches :
     inSeq(match.formFieldType, FIELD_PATTERNS[match.profilePath].fieldTypes)

\* matchField returns no match for a field whose input type no rule accepts
noRuleNoMatch ==
  (matchReturned /\ argField.t # "null" /\ ~acceptedBySomeRule(argField.type)) =>
    ret = NullV

\* the scanned fields whose input type no rule accepts
fieldsWithoutRule ==
  { k \in 1..Len(scannedFields(argFormData)) :
      /\ scannedFields(argFormData)[k].t # "null"
      /\ ~acceptedBySomeRule(scannedFields(argFormData)[k].type) }

\* the report carries no error marker, and every scanned field whose input
\* type no rule accepts is an entry of unmatchedFormFields and of no match
noRuleFieldsReported ==
  /\ ret.error = "undefined"
  /\ \A k \in fieldsWithoutRule :
        /\ \E i \in 1..Len(ret.unmatchedFormFields) :
              /\ ret.unmatchedFormFields[i].id = scannedFields(argFormData)[k].id
              /\ ret.unmatchedFormFields[i].type = scannedFields(argFormData)[k].type
        /\ \A i \in 1..Len(ret.matches) :
              ret.matches[i].formFieldType # scannedFields(argFormData)[k].type

\* C20: matchField never returns a match for a rule whose fieldTypes exclude
\* the field's input type; a field whose input type is accepted by no rule
\* yields no match and is reported in unmatchedFormFields, without any error
\* marker on the report.
C20_NoCompatibleRuleIsSilent ==
  /\ matchesAreTypeAccepted
  /\ noRuleNoMatch
  /\ (mapReturned /\ wellFormedCall /\ fieldsWithoutRule # {}) => noRuleFieldsReported

\* diagnostics of C20: the two statements about matchField hold, and the
\* statement about the report holds when no field list holds a null entry
C20_MatchFieldPart == matchesAreTypeAccepted /\ noRuleNoMatch

C20_WithoutNull ==
  (mapReturned /\ wellFormedCall /\ fieldsWithoutRule # {}
     /\ withoutMalformed(argFormData) = argFormData) => noRuleFieldsReported

\* matchField returned null for the password input, whose attributes are
\* patterns of the first-name rule
C20_NoMatchReached ==
  /\ matchReturned /\ argField = fPassword /\ ret = NullV
  /\ confidenceFor(argField, firstNamePath).score = confidenceFor(fFirst, firstNamePath).score

\* the report lists the password input in unmatchedFormFields, matches the
\* text input after it and carries no error marker
C20_ReportedReached ==
  /\ mapReturned /\ argFormData = passwordFormData
  /\ ret.error = "undefined"
  /\ Len(ret.unmatchedFormFields) = 1 /\ ret.unmatchedFormFields[1].type = "password"
  /\ Len(ret.matches) = 1

\* the password input is followed by a null entry: the report carries the
\* error marker and lists no field
C20_AbortedReached ==
  /\ mapReturned /\ argFormData = passwordThenNullFormData
  /\ ret.error # "undefined"
  /\ ret.unmatchedFormFields = <<>>

zipCodePath == <<"profile", "personal", "zipCode">>

\* the positions in the registry of the eligible rules with a positive score
eligibleRules(formField, profile) ==
  { k \in 1..Len(getAllProfilePaths) :
      /\ eligible(formField, profile, getAllProfilePaths[k])
      /\ DLess(DZero, finalScoreOf(formField, getAllProfilePaths[k])) }

\* the same with the emptiness test of matchField, which lets an empty array
\* pass
passingRules(formField, profile) ==
  { k \in 1..Len(getAllProfilePaths) :
      LET pattern == getPatternForPath(getAllProfilePaths[k])
          value   == getProfileFieldValue(profile, getAllProfilePaths[k])
      IN  /\ pattern.t # "null"
          /\ inSeq(formField.type, pattern.fieldTypes)
          /\ validateFieldType(formField, getAllProfilePaths[k], value)
          /\ ~isEmptyValue(value)
          /\ DLess(DZero, finalScoreOf(formField, getAllProfilePaths[k])) }

\* match is none exactly when rules is empty, and else carries the highest
\* score of rules
bestOf(formField, rules, match) ==
  /\ match.t = "null" <=> rules = {}
  /\ match.t # "null" =>
       /\ \E k \in rules : match.confidence = finalScoreOf(formField, getAllProfilePaths[k])
       /\ \A k \in rules : DLeq(finalScoreOf(formField, getAllProfilePaths[k]), match.confidence)

\* C21: matchField returns none exactly when no rule that accepts the field's
\* type has a positive score together with a present, type-valid, non-empty
\* profile value; otherwise the confidence of the returned match is the
\* highest score of these eligible rules, so a higher-scoring rule rejected for
\* its value never keeps a lower-scoring eligible rule from being returned.
C21_BestEligibleRuleReturned ==
  (matchReturned /\ argField.t # "null") =>
    bestOf(argField, eligibleRules(argField, argProfile), ret)

\* the statement with an empty array counted as a value
C21_CountingEmptyArrays ==
  (matchReturned /\ argField.t # "null") =>
    bestOf(argField, passingRules(argField, argProfile), ret)

\* the gpa rule scores 0.5 and is rejected for its empty value; the zip-code
\* rule, scoring 0.3, is returned
C21_LowerRuleReached ==
  /\ matchReturned
  /\ argField = fGpaZip
  /\ getProfileFieldValue(argProfile, gpaPath) = Str(<<>>)
  /\ finalScoreOf(argField, gpaPath) = Dbl(5, 10)
  /\ ret.t # "null"
  /\ ret.profilePath = zipCodePath
  /\ ret.confidence = Dbl(3, 10)

\* a match returned on the empty skills array, the one eligible rule missing
C21_EmptyArrayReached ==
  /\ matchReturned
  /\ argField = fSkills
  /\ getProfileFieldValue(argProfile, skillsPath) = Arr(<<>>)
  /\ eligibleRules(argField, argProfile) = {}
  /\ ret.t # "null"
  /\ ret.profilePath = skillsPath

\* the highest similarity of text to one of the phrases, 0 for no text
bestSimilarity(text, phrases) ==
  IF text = <<>> THEN DZero
  ELSE LET found == { scoreFuzzyMatch(text, phrases[k]) : k \in 1..Len(phrases) } \cup {DZero}
       IN  CHOOSE best \in found : \A other \in found : DLeq(other, best)

\* the label is, but for case and punctuation, one of the phrases
labelIsPhrase(formField, phrases) ==
  /\ formField.label # <<>>
  /\ \E k \in 1..Len(phrases) : normalizeText(formField.label) = normalizeText(phrases[k])

fuzzyReturned == op = "scoreFuzzyMatch" /\ pc = "returned"

C23_HalfReached ==
  /\ fuzzyReturned
  /\ Len(normalizeText(argText)) = 2 /\ Len(normalizeText(argText2)) = 2
  /\ calculateLevenshteinDistance(normalizeText(argText), normalizeText(argText2)) = 1
  /\ ret = DZero

\* one string contains the other, in either order of the arguments
C23_ContainsReached ==
  /\ fuzzyReturned
  /\ Len(normalizeText(argText)) < Len(normalizeText(argText2))
  /\ includes(normalizeText(argText2), normalizeText(argText))
  /\ normalizeText(argText) # <<>>
  /\ ret = Dbl(85, 100)

\* the strings one deletion, one substitution or one insertion away from s
oneEdit(s) ==
  { SubSeq(s, 1, i - 1) \o SubSeq(s, i + 1, Len(s)) : i \in 1..Len(s) }
    \cup { [s EXCEPT ![i] = c] : i \in 1..Len(s), c \in Letters }
    \cup { SubSeq(s, 1, i) \o <<c>> \o SubSeq(s, i + 1, Len(s)) : i \in 0..Len(s), c \in Letters }

\* editBalls[s][k + 1] holds the strings at most k edits from s.  A shortest
\* chain of edits between two strings can make its deletions first and its
\* insertions last, so it needs no string longer than the longer of the two.
editBalls ==
  [ s \in Words |->
      forRange(LAMBDA k, balls :
                 Append(balls,
                        balls[k] \cup { t \in UNION { oneEdit(u) : u \in balls[k] } :
                                          Len(t) =< MaxWord }),
               1, MaxWord, << {s} >>) ] @@ <<>>

\* the least number of edits that turn a into b
minimumEdits(a, b) ==
  CHOOSE k \in 0..MaxWord :
    /\ b \in editBalls[a][k + 1]
    /\ k = 0 \/ b \notin editBalls[a][k]

\* the last call was calculateLevenshteinDistance and ret holds the distance
distanceReturned == op = "calculateLevenshteinDistance" /\ pc = "returned"

\* C24: editDistance(a, b) is the minimum number of single-character
\* insertions, deletions and substitutions that turn a into b; it is 0 exactly
\* when a equals b, it is symmetric, and it never exceeds the length of the
\* longer string.
C24_EditDistanceIsMinimum ==
  distanceReturned =>
    /\ ret = minimumEdits(argText, argText2)
    /\ ret = 0 <=> argText = argText2
    /\ ret = calculateLevenshteinDistance(argText2, argText)
    /\ ret =< Max(Len(argText), Len(argText2))

\* a string of three characters and one of two that are two edits apart and
\* have no character in common at the same place
C24_Witness ==
  /\ distanceReturned
  /\ Len(argText) = 3 /\ Len(argText2) = 2
  /\ \A i \in 1..2 : argText[i] # argText2[i]
  /\ minimumEdits(argText, argText2) = 2
  /\ ret = 2

\* the last call was validateFieldType and ret holds its verdict
validateReturned == op = "validateFieldType" /\ pc = "returned"

\* a string that begins with "http://" or with "https://"
httpValue(value) ==
  /\ value.t = "str"
  /\ \/ Len(value.v) >= 7 /\ SubSeq(value.v, 1, 7) = <<"h","t","t","p",":","/","/">>
     \/ Len(value.v) >= 8 /\ SubSeq(value.v, 1, 8) = <<"h","t","t","p","s",":","/","/">>

\* the verdict is that of the first applicable rule
firstApplicableRule ==
  LET type    == argField.type
      onPath(word) == \E k \in 1..Len(argPath) : argPath[k] = word
      string  == argValue.t = "str"
  IN  /\ argValue.t # "null" =>
           ret = IF type = "email" /\ onPath("email") THEN string /\ includes(argValue.v, <<"@">>)
                 ELSE IF type = "tel" /\ onPath("phone") THEN string
                 ELSE IF type = "number" THEN ~isNaN(argValue)
                 ELSE IF type = "url" THEN httpValue(argValue)
                 ELSE IF type = "file" /\ onPath("resume") THEN TRUE
                 ELSE IF type \in {"select", "select-one"} THEN string /\ argValue.v # <<>>
                 ELSE IF type = "textarea" THEN string \/ argValue.t = "arr"
                 ELSE string \/ argValue.t = "num"
      /\ (type = "url" /\ ret) => httpValue(argValue)

C25_ResumeReached ==
  /\ validateReturned
  /\ argField.t # "null" /\ argField.type = "file"
  /\ argPath = <<"profile", "documents", "resume">>
  /\ argValue = NullV
  /\ ret = FALSE

C25_UrlAcceptedReached ==
  /\ validateReturned
  /\ argField.t # "null" /\ argField.type = "url"
  /\ argValue = Str(vHttp)
  /\ ret = TRUE

\* C26: mapProfileToForm and matchField leave the profile, the scanned forms
\* with their field descriptors and the pattern registry (rules, phrases,
\* accepted types, negative keywords and their order) unchanged: after any
\* sequence of invocations each of them is what it was before the first.
\* Every step that returns from one of the two functions is constrained.
C26_InputsAndRegistryUnchanged ==
  [][(op \in {"matchField", "mapProfileToForm"} /\ pc' = "returned") =>
       /\ argProfile' = argProfile
       /\ argFormData' = argFormData
       /\ argField' = argField
       /\ registry' = registry]_vars

\* the registry is the one the module was loaded with
C26_RegistryAsLoaded == registry = Registry

\* mapProfileToForm has returned from a second call, made after the clock
\* advanced, with matches in its report
C26_Witness ==
  /\ mapReturned
  /\ ret.timestamp >= 1
  /\ Len(ret.matches) >= 1
  /\ argProfile = fullProfile
  /\ argFormData.t = "obj" /\ argFormData.forms.t = "arr" /\ Len(argFormData.forms.v) >= 1
  /\ registry = Registry

\* the ids of the fields at the chosen positions, in scan order
idsAt(fields, chosen) ==
  LET positions == SelectSeq([i \in 1..Len(fields) |-> i], LAMBDA i : i \in chosen)
  IN  [k \in 1..Len(positions) |-> fields[positions[k]].id]

\* C27: in every report without an error marker each field of each form that
\* is not skipped appears exactly once, in matches or in unmatchedFormFields
\* and never in both; the two lists together are as long as the field lists
\* of these forms, and each keeps the fields in scan order.
C27_EachFieldListedOnce ==
  (mapReturned /\ ret.error = "undefined") =>
    LET fields == scannedFields(argFormData)
        all    == 1..Len(fields)
    IN  /\ Len(ret.matches) + Len(ret.unmatchedFormFields) = Len(fields)
        /\ \E chosen \in SUBSET all :
             /\ idsAt(fields, chosen) =
                  [i \in 1..Len(ret.matches) |-> ret.matches[i].formFieldId]
             /\ idsAt(fields, all \ chosen) =
                  [i \in 1..Len(ret.unmatchedFormFields) |-> ret.unmatchedFormFields[i].id]

\* a report that lists the first field of the scan as unmatched and the
\* second as the match
C27_Witness ==
  /\ mapReturned /\ ret.error = "undefined"
  /\ Len(scannedFields(argFormData)) = 2
  /\ Len(ret.matches) = 1 /\ Len(ret.unmatchedFormFields) = 1
  /\ ret.unmatchedFormFields[1].id = scannedFields(argFormData)[1].id
  /\ ret.matches[1].formFieldId = scannedFields(argFormData)[2].id
  /\ scannedFields(argFormData)[1].id # scannedFields(argFormData)[2].id

\* a skipped form that holds a field, in a scan whose other form is mapped
C27_SkippedReached ==
  /\ mapReturned /\ ret.error = "undefined"
  /\ Len(argFormData.forms.v) = 2
  /\ \E i \in 1..2 : argFormData.forms.v[i].hasCaptcha /\ Len(argFormData.forms.v[i].fields) = 1
  /\ Len(scannedFields(argFormData)) = 1
  /\ Len(ret.matches) + Len(ret.unmatchedFormFields) = 1

\* the field has a label, and a placeholder or a name
wellDescribed(label, placeholder, name) ==
  label # <<>> /\ (placeholder # <<>> \/ name # <<>>)

\* the fields of FieldPool a match or an unmatched entry with this id is for
fieldsWithId(id) == { formField \in FieldPool : formField.id = id }

\* every accepted match is for a field with a label and a placeholder or name
matchesWellDescribed ==
  /\ (matchReturned /\ ret.t # "null" /\ DLeq(Dbl(6, 10), ret.confidence)) =>
        wellDescribed(argField.label, argField.placeholder, argField.name)
  /\ mapReturned =>
        \A i \in 1..Len(ret.matches) :
           \A formField \in fieldsWithId(ret.matches[i].formFieldId) :
              wellDescribed(formField.label, formField.placeholder, formField.name)

\* every scanned field without a label, or with neither placeholder nor name,
\* is listed in unmatchedFormFields
poorlyDescribedReported ==
  (mapReturned /\ wellFormedCall) =>
    LET fields == scannedFields(argFormData)
    IN  \A k \in 1..Len(fields) :
          (fields[k].t # "null"
             /\ ~wellDescribed(fields[k].label, fields[k].placeholder, fields[k].name))
          => \E i \in 1..Len(ret.unmatchedFormFields) :
                ret.unmatchedFormFields[i].id = fields[k].id

\* C28: every field placed in matches has a non-empty label together with a
\* non-empty placeholder or a non-empty name: a field described only by its
\* label, only by its label and ariaLabel, or without any label never reaches
\* the threshold of 0.6 and is always reported in unmatchedFormFields.
C28_MatchNeedsLabelAndMore ==
  matchesWellDescribed /\ poorlyDescribedReported

\* the part about the matches
C28_MatchedPart == matchesWellDescribed

\* the whole statement for the scans without a null field entry
C28_WithoutNull ==
  (mapReturned /\ wellFormedCall /\ withoutMalformed(argFormData) = argFormData) =>
    C28_MatchNeedsLabelAndMore

\* label and aria-label of the first name: 0.55, below the threshold
C28_LabelAriaReached ==
  /\ matchReturned
  /\ argField = fLabelAria
  /\ ret.t # "null"
  /\ ret.confidence = DAdd(Dbl(5, 10), Dbl(5, 100))
  /\ DLess(ret.confidence, Dbl(6, 10))

\* the four fields described by their label are all reported unmatched
C28_ReportedReached ==
  /\ mapReturned
  /\ argFormData = endToEndFormData
  /\ ret.error = "undefined"
  /\ Len(ret.matches) = 0
  /\ Len(ret.unmatchedFormFields) = 4

\* a field described by its label, followed by a null entry: not reported
C28_AbortedReached ==
  /\ mapReturned
  /\ argFormData = labelThenNullFormData
  /\ ret.error # "undefined"
  /\ ret.unmatchedFormFields = <<>>

\* C29: every entry of matches in a report (confidence >= 0.6) names one of
\* the four attributes label, placeholder, name and ariaLabel in matchedOn; an
\* accepted match never has matchedOn none.
C29_AcceptedMatchNamesAttribute ==
  /\ (matchReturned /\ ret.t # "null" /\ DLeq(Dbl(6, 10), ret.confidence)) =>
        ret.matchedOn \in {"label", "placeholder", "name", "ariaLabel"}
  /\ mapReturned =>
        \A i \in 1..Len(ret.matches) :
           ret.matches[i].matchedOn \in {"label", "placeholder", "name", "ariaLabel"}

\* every match that names no attribute has a label part of at most 0.4, a
\* placeholder part of at most 0.2, a name part of at most 0.1 and no
\* aria-label part
C29_NoneBelowEachThreshold ==
  (matchReturned /\ ret.t # "null" /\ ret.matchedOn = "none") =>
    LET pattern == getPatternForPath(ret.profilePath)
    IN  /\ DLeq(scoreMatch(argField, pattern, "label"), Dbl(4, 10))
        /\ DLeq(scoreMatch(argField, pattern, "placeholder"), Dbl(2, 10))
        /\ DLeq(scoreMatch(argField, pattern, "name"), Dbl(1, 10))
        /\ scoreMatch(argField, pattern, "ariaLabel") = DZero

\* the field labelled 'Frist Name': the label part is exactly 0.4, placeholder
\* and name add 0.27, and the match of confidence 0.67 names no attribute
C29_NoneReached ==
  /\ matchReturned
  /\ argField = fBlurred
  /\ ret.t # "null"
  /\ ret.profilePath = firstNamePath
  /\ scoreMatch(argField, getPatternForPath(firstNamePath), "label") = Dbl(4, 10)
  /\ DLeq(Dbl(6, 10), ret.confidence)
  /\ ret.matchedOn = "none"

\* a match that names its attribute
C29_NamedReached ==
  /\ matchReturned
  /\ argField = fZip
  /\ ret.t # "null"
  /\ ret.confidence = Dbl(6, 10)
  /\ ret.matchedOn = "label"

\* the negative keywords of the rule that occur inside one of its own phrases
negativesInsidePhrases(profilePath) ==
  { <<p, k>> \in (1..Len(registry.FIELD_PATTERNS[profilePath].patterns))
                   \X (1..Len(getNegativeKeywords(profilePath))) :
      includes(toLowerCase(registry.FIELD_PATTERNS[profilePath].patterns[p]),
               toLowerCase(getNegativeKeywords(profilePath)[k])) }

\* a field whose only text is its label
labelOnly(formField) ==
  /\ formField.t # "null"
  /\ formField.label # <<>>
  /\ formField.placeholder = <<>>
  /\ formField.name = <<>>
  /\ formField.ariaLabel = <<>>

\* C30: in the pattern registry no candidate phrase of a rule contains one of
\* that same rule's negative keywords as a substring, so a field whose label
\* equals one of a rule's phrases (and has no other text) is never vetoed for
\* that rule: calculateConfidence gives it a positive score.
C30_PhrasesFreeOfOwnNegatives ==
  (op = "calculateConfidence" /\ pc = "returned") =>
    /\ negativesInsidePhrases(argPath) = {}
    /\ (labelOnly(argField)
        /\ labelIsPhrase(argField, registry.FIELD_PATTERNS[argPath].patterns)) =>
          /\ ~hasNegativeKeyword(argField, getNegativeKeywords(argPath))
          /\ DLess(DZero, ret.score)

\* the statement for every rule but the one for profile.personal.email
C30_AllRulesButEmail ==
  (op = "calculateConfidence" /\ pc = "returned" /\ argPath # emailPath) =>
    /\ negativesInsidePhrases(argPath) = {}
    /\ (labelOnly(argField)
        /\ labelIsPhrase(argField, registry.FIELD_PATTERNS[argPath].patterns)) =>
          /\ ~hasNegativeKeyword(argField, getNegativeKeywords(argPath))
          /\ DLeq(Dbl(5, 10), ret.score)

\* the phrase 'email address' of the email rule contains that rule's negative
\* keyword 'address', and the field labelled 'email address' scores 0 for it
C30_EmailAddressReached ==
  /\ op = "calculateConfidence" /\ pc = "returned"
  /\ argPath = emailPath
  /\ argField = fEmailAddress
  /\ negativesInsidePhrases(emailPath) = {<<2, 3>>}
  /\ labelIsPhrase(argField, registry.FIELD_PATTERNS[emailPath].patterns)
  /\ ret.score = DZero
  /\ ret.matchedOn = "null"

\* a field whose label is a phrase of a rule with negative keywords and
\* nothing else, scored for that rule
C30_PhraseLabelReached ==
  /\ op = "calculateConfidence" /\ pc = "returned"
  /\ argPath = firstNamePath
  /\ argField = fFirstLabel
  /\ getNegativeKeywords(argPath) # <<>>
  /\ ret.score = Dbl(5, 10)
=============================================================================
